---- MODULE Spec2Model ----
(***************************************************************************)
(* Real-time log streaming bridge of elk-vision-saas                       *)
(* (backend/api/realtime.py, backend/api/consumers.py).                    *)
(*                                                                         *)
(* The bridge task (RedisPubSubBridge.run) is modelled at the granularity  *)
(* of its suspension points: every value of pc is an `await` of the code,  *)
(* and one action is the code that runs from the completion (or failure,   *)
(* or cancellation) of that await up to the next one.                      *)
(***************************************************************************)
EXTENDS Integers, Sequences, FiniteSets, TLC

(***************************************************************************)
(* Bounds of the model                                                     *)
(***************************************************************************)
\* connect attempts the environment lets fail (ping or subscribe)
MaxFailures == 7
\* frames the upstream subscription delivers
MaxMsgs == 2
\* calls of add_connection / remove_connection
MaxCalls == 3
\* calls of SlidingWindowCounter.add
MaxAdds == 2
\* the wall clock stops advancing there
MaxTime == 80
\* calls of MetricsAggregator.record_log
MaxRecords == 2
\* messages sent to the group log_stream
MaxPublishes == 2
\* set_filters messages the connected log stream connections were answered
MaxSetFilters == 1
\* calls of record_log in a run that fills the list of top sources
MaxSourceRecords == 13
\* seconds of a run that fills the history series
MaxHistoryTime == 302
\* iterations of the metrics broadcast loop
MaxIterations == 3
\* the most seconds the clock moves while calls of get_metrics() run
MaxDrift == 1

(***************************************************************************)
(* Program constants                                                       *)
(***************************************************************************)
\* RedisPubSubBridge.__init__: self._reconnect_delay = 1
InitialReconnectDelay == 1
\* RedisPubSubBridge.__init__: self._max_reconnect_delay = 30
MaxReconnectDelay == 30
\* _process_message: normalized_log.get('message', '')[:200]
AlertMessageLimit == 200
\* _init_counters: SlidingWindowCounter(window_seconds=10)
LogsWindow == 10
\* _init_counters, record_log: SlidingWindowCounter(window_seconds=60)
MinuteWindow == 60
\* _init_counters: deque(maxlen=300)
HistoryCapacity == 300
\* get_metrics: top_sources[:10]
TopSourcesLimit == 10

\* broadcast_metrics_loop(interval_seconds: float = 1.0)
IntervalSeconds == 1

\* Python None for a handle (self._redis, self._pubsub)
NoHandle == 0
\* Python None for a string-valued field
NoneVal == "<None>"
\* the empty dict {}
EmptyObj == <<>>

VARIABLES
    pc,               \* the await the run() task is suspended at
    running,          \* RedisPubSubBridge._running
    redis,            \* RedisPubSubBridge._redis (NoHandle or a client)
    pubsub,           \* RedisPubSubBridge._pubsub (NoHandle or a PubSub)
    channel_layer,    \* RedisPubSubBridge._channel_layer is set
    reconnect_delay,  \* RedisPubSubBridge._reconnect_delay
    subscribed,       \* the PubSub object has a confirmed subscription
    openClients,      \* clients created by from_url and not closed
    openPubsubs,      \* PubSub objects created and not closed
    nextHandle,       \* number of clients created so far
    cur,              \* the event _process_message is working on
    recorded,         \* calls of metrics_aggregator.record_log, in order
    sends,            \* calls of channel_layer.group_send that returned or raised
    groups,           \* channel layer: set of <<group, channel_name>>
    notification_group, \* NotificationConsumer.notification_group per connection
    ncstate,          \* each notification connection is "open" or "closed"
    inbox,            \* frames written to each open notification websocket
    now,              \* wall clock (time.time()) read by the bridge
    stopCalled,       \* history: stop() was called
    cancelled,        \* history: the run task was cancelled
    transportErrors,  \* history: transport errors raised while listening
    failures,         \* history: failed connect attempts
    received,         \* history: frames delivered by listen()
    slept,            \* history: delays slept since the last successful connect
    sleptAll,         \* history: every delay slept
    malformed,        \* history: numbers of the frames that did not decode to an object
    processed,        \* history: numbers of the events whose _process_message returned
    connections,      \* ConnectionTracker._connections: group -> set of channel names
    user_info,        \* ConnectionTracker._user_info: channel name -> info
    lock,             \* ConnectionTracker._lock: the task holding it, or NoTask
    tpc,              \* each tracker caller: "idle", "called" (at async with), "locked"
    targs,            \* each tracker caller: the call it is making
    calls,            \* history: the completed tracker calls, in order of their effect
    lsopen,           \* the log stream connections that are connected
    filters,          \* LogStreamConsumer.filters per connection
    lsinbox,          \* frames written to each log stream websocket
    published,        \* history: messages sent to the group log_stream
    ctr,              \* one SlidingWindowCounter: window_seconds and _events
    added,            \* history: the timestamps add() appended, in order
    lastCount,        \* history: the latest value returned by count(), or NoCount
    logs_counter,     \* MetricsAggregator._logs_counter._events
    errors_counter,   \* MetricsAggregator._errors_counter._events
    warnings_counter, \* MetricsAggregator._warnings_counter._events
    criticals_counter, \* MetricsAggregator._criticals_counter._events
    level_counters,   \* MetricsAggregator._level_counters: level -> _events
    source_counters,  \* MetricsAggregator._source_counters, in insertion order
    logs_history,     \* MetricsAggregator._logs_history
    errors_history,   \* MetricsAggregator._errors_history
    last_sample_time, \* MetricsAggregator._last_sample_time
    snapshot,         \* history: the latest dict returned by get_metrics(), or NoSnapshot
    logged,           \* history: the calls of record_log, as level and time
    ppc,              \* the await the broadcast_metrics_loop task is suspended at
    metrics,          \* broadcast_metrics_loop: the local metrics
    broadcasts,       \* the calls of group_send('metrics_stream', ...), in order
    pcancelled,       \* the broadcast task was cancelled
    iterations,       \* iterations of the loop that were started
    iter_errors,      \* iterations that raised an error
    raw,              \* the payload _normalize_log was last called with
    normalized,       \* what that call returned, if it returned
    lsqueue,          \* per log stream connection: the messages of its channel
                      \* that its consumer has not handled yet
    lswriting,        \* per log stream connection: the frame whose send() its
                      \* handler is suspended at
    lpc               \* per log stream connection: the await its connect() or
                      \* disconnect() is suspended at

bridgeVars == <<pc, running, redis, pubsub, channel_layer, reconnect_delay,
                subscribed, openClients, openPubsubs, nextHandle, cur>>
fanoutVars == <<recorded, sends, inbox>>
consumerVars == <<groups, notification_group, ncstate>>
historyVars == <<stopCalled, cancelled, transportErrors, failures, received,
                 slept, sleptAll>>
msgHistory == <<malformed, processed>>
trackerVars == <<connections, user_info, lock, tpc, targs, calls>>
streamVars == <<lsopen, filters, lsinbox, published>>
counterVars == <<ctr, added, lastCount>>
metricsVars == <<logs_counter, errors_counter, warnings_counter, criticals_counter,
                 level_counters, source_counters, logs_history, errors_history,
                 last_sample_time, snapshot, logged>>
publisherVars == <<ppc, metrics, broadcasts, pcancelled, iterations, iter_errors>>
normVars == <<raw, normalized>>
\* the broadcast task, the calls of _normalize_log made on their own, and the
\* handlers of the log stream connections taken await by await
deliveryVars == <<lsqueue, lswriting, lpc>>
sideVars == <<publisherVars, normVars, deliveryVars>>
\* what the handlers of the log stream connections leave alone
outsideDelivery == <<bridgeVars, fanoutVars, historyVars, msgHistory, now, counterVars,
                     metricsVars, publisherVars, normVars>>
\* the state outside the bridge task and the notification connections
restVars == <<trackerVars, streamVars, counterVars, metricsVars>>
\* the state of the tasks of the listener command and of the notification
\* connections
bridgeSide == <<bridgeVars, fanoutVars, consumerVars, historyVars, msgHistory,
                sideVars>>
vars == <<bridgeVars, fanoutVars, consumerVars, historyVars, msgHistory, now, restVars,
          sideVars>>

Min(a, b) == IF a <= b THEN a ELSE b

(***************************************************************************)
(* run(): backoff arithmetic                                               *)
(***************************************************************************)
NextDelayUncapped(d) == d * 2

\* self._reconnect_delay = min(self._reconnect_delay * 2, self._max_reconnect_delay)
NextDelay(d) == Min(d * 2, MaxReconnectDelay)

\* connect(): self._reconnect_delay = 1  # Reset delay on success
DelayAfterSuccess(d) == InitialReconnectDelay

(***************************************************************************)
(* Upstream frames.  A frame is what PubSub.listen() yields: a dict with a *)
(* 'type' and, for type 'message', the published text in 'data'.  The text *)
(* is modelled by what json.loads makes of it: kind "garbage" does not     *)
(* decode (JSONDecodeError), kind "array" decodes to a value that is not   *)
(* an object, kind "object" decodes to the dict val.  Field values are     *)
(* strings; a message is a sequence of characters so that it can be        *)
(* sliced.                                                                 *)
(***************************************************************************)
Chars(n, c) == [i \in 1..n |-> c]

LongMessage == Chars(AlertMessageLimit, "x") \o <<"y", "z">>

SubscribeFrame == [type |-> "subscribe", data |-> [kind |-> "number"]]
GarbageFrame == [type |-> "message", data |-> [kind |-> "garbage"]]
ArrayFrame == [type |-> "message", data |-> [kind |-> "array"]]
InfoFrame ==
    [type |-> "message",
     data |-> [kind |-> "object",
               val |-> [message |-> <<"o", "k">>, service_name |-> "api"]]]
CriticalFrame ==
    [type |-> "message",
     data |-> [kind |-> "object",
               val |-> [_id |-> "id1", level |-> "CRITICAL",
                        message |-> LongMessage, source |-> "db"]]]
ParsedErrorFrame ==
    [type |-> "message",
     data |-> [kind |-> "object",
               val |-> [level |-> "info", message |-> <<"r", "a", "w">>,
                        parsed |-> [level |-> "ERROR",
                                    message |-> <<"b", "o", "o", "m">>,
                                    trace |-> "t1"]]]]
Frames == {SubscribeFrame, GarbageFrame, ArrayFrame, InfoFrame, CriticalFrame,
           ParsedErrorFrame}

(***************************************************************************)
(* Python helpers                                                          *)
(***************************************************************************)
\* dict.get(k, default)
Get(d, k, default) == IF k \in DOMAIN d THEN d[k] ELSE default

\* truth value of a string-valued field (None and '' are falsy)
Truthy(v) == v # NoneVal /\ v # ""

\* a or b, on string-valued fields
OrElse(a, b) == IF Truthy(a) THEN a ELSE b

\* str.lower() on the level strings of the model
Lower(s) ==
    CASE s = "CRITICAL" -> "critical"
      [] s = "ERROR" -> "error"
      [] s = "Warning" -> "warning"
      [] OTHER -> s

\* str.upper() on the lower-case level strings
Upper(s) ==
    CASE s = "critical" -> "CRITICAL"
      [] s = "error" -> "ERROR"
      [] s = "warning" -> "WARNING"
      [] s = "info" -> "INFO"
      [] s = "debug" -> "DEBUG"
      [] OTHER -> s

\* s[:n]
Take(s, n) == SubSeq(s, 1, Min(Len(s), n))

\* str(time.time())
TimeStr(t) == ToString(t)

\* datetime.utcnow().isoformat()
IsoFormat(t) == "utc:" \o ToString(t)

(***************************************************************************)
(* RedisPubSubBridge._normalize_log                                        *)
(***************************************************************************)
MappedParsedKeys ==
    {"level", "message", "source", "service_name", "environment", "timestamp"}

\* (parsed.get('level') or log_data.get('level', 'info')).lower()
NormalizedLevel(log_data, parsed) ==
    Lower(OrElse(Get(parsed, "level", NoneVal), Get(log_data, "level", "info")))

\* parsed.get('message') or log_data.get('message', '')
NormalizedMessage(log_data, parsed) ==
    IF "message" \in DOMAIN parsed /\ parsed["message"] # <<>>
    THEN parsed["message"]
    ELSE Get(log_data, "message", <<>>)

\* the call raises AttributeError: the level is None and .lower() is called
\* on it (line 397)
NormalizeRaises(log_data) ==
    OrElse(Get(Get(log_data, "parsed", EmptyObj), "level", NoneVal),
           Get(log_data, "level", "info")) = NoneVal

normalize_log(log_data, t) ==
    LET parsed == Get(log_data, "parsed", EmptyObj)
    IN  [id |-> OrElse(Get(log_data, "_id", NoneVal),
                       OrElse(Get(Get(log_data, "@metadata", EmptyObj), "_id", NoneVal),
                              TimeStr(t))),
         timestamp |-> OrElse(Get(log_data, "@timestamp", NoneVal),
                              OrElse(Get(parsed, "timestamp", NoneVal), IsoFormat(t))),
         level |-> NormalizedLevel(log_data, parsed),
         message |-> NormalizedMessage(log_data, parsed),
         source |-> OrElse(Get(parsed, "source", NoneVal),
                           OrElse(Get(log_data, "source", NoneVal),
                                  Get(Get(log_data, "host", EmptyObj), "name", NoneVal))),
         service_name |-> OrElse(Get(parsed, "service_name", NoneVal),
                                 Get(log_data, "service_name", NoneVal)),
         environment |-> OrElse(Get(parsed, "environment", NoneVal),
                                Get(log_data, "environment", NoneVal)),
         metadata |-> [k \in (DOMAIN parsed) \ MappedParsedKeys |-> parsed[k]]]

(***************************************************************************)
(* _process_message: the alert derived from an error / critical event      *)
(***************************************************************************)
NeedsAlertUpperCase(level) == level \in {"ERROR", "CRITICAL"}

\* if level in ('error', 'critical'):
NeedsAlert(level) == level \in {"error", "critical"}

AlertDataUntruncated(ev) ==
    LET level == Lower(ev.level)
    IN  [id |-> ev.id,
         severity |-> IF level = "critical" THEN "critical" ELSE "high",
         title |-> Upper(level) \o " Log Event",
         message |-> ev.message,
         source |-> ev.source,
         log_id |-> ev.id]

\* the 'data' of the alert_notification message (lines 369-376)
AlertData(ev) ==
    LET level == Lower(ev.level)
    IN  [id |-> ev.id,
         severity |-> IF level = "critical" THEN "critical" ELSE "high",
         title |-> Upper(level) \o " Log Event",
         message |-> Take(ev.message, AlertMessageLimit),
         source |-> ev.source,
         log_id |-> ev.id]

\* the message handed to group_send('log_stream', ...)
NewLogMessage(ev, t) ==
    [type |-> "new_log", data |-> ev, timestamp |-> IsoFormat(t)]

\* the message handed to group_send('notifications_broadcast', ...)
AlertMessage(ev, t) ==
    [type |-> "alert_notification", data |-> AlertData(ev), timestamp |-> IsoFormat(t)]

\* the group the bridge publishes events to (line 354)
LogStreamGroup == "log_stream"

\* the group the bridge publishes alerts to (line 366)
AlertGroup == "notifications_broadcast"

(***************************************************************************)
(* Notification connections (NotificationConsumer)                         *)
(***************************************************************************)
\* the websocket connections to ws/notifications/ (one channel_name each)
NConns == {"n1"}
\* scope["user"]: an authenticated user (its user.id), or the anonymous user
ScopeUsers == {"7", "anon"}
IsAuthenticated(u) == u # "anon"

\* f"notifications_{self.user.id if self.user.is_authenticated else 'anonymous'}"
NotificationGroupName(u) ==
    "notifications_" \o (IF IsAuthenticated(u) THEN u ELSE "anonymous")

\* channel_layer.group_send followed by each member's handler:
\* NotificationConsumer.alert_notification writes an 'alert' frame
Members(group) == {c \in NConns : <<group, c>> \in groups}

AlertFrame(msg) ==
    [type |-> "alert", data |-> msg.data, timestamp |-> msg.timestamp]

Deliver(group, msg) ==
    [c \in NConns |->
        IF c \in Members(group) /\ msg.type = "alert_notification"
        THEN Append(inbox[c], AlertFrame(msg))
        ELSE inbox[c]]

(***************************************************************************)
(* _process_message: decoding                                              *)
(***************************************************************************)
JsonLoadsLenient(data) ==
    [ok |-> TRUE, isobj |-> TRUE,
     value |-> IF data.kind = "object" THEN data.val ELSE EmptyObj]

\* json.loads(raw_data): ok is FALSE when it raises JSONDecodeError; isobj
\* tells whether the decoded value is a dict (else .get raises AttributeError)
JsonLoads(data) ==
    [ok |-> data.kind # "garbage", isobj |-> data.kind = "object",
     value |-> IF data.kind = "object" THEN data.val ELSE EmptyObj]

IsMessageAlways(f) == TRUE

\* if message['type'] != 'message': return
IsMessage(f) == f.type = "message"

\* the frame reaches metrics_aggregator.record_log (no return, no exception
\* before line 349)
Normalizes(f) ==
    /\ IsMessage(f) /\ JsonLoads(f.data).ok /\ JsonLoads(f.data).isobj
    /\ ~NormalizeRaises(JsonLoads(f.data).value)

NoEvent == [n |-> 0]

(***************************************************************************)
(* ConnectionTracker (realtime.py, lines 35-94).  A Python dict is a       *)
(* function whose DOMAIN is the set of its keys.                           *)
(***************************************************************************)
\* the groups connections are tracked in
TrackerGroups == {"log_stream", "metrics_stream"}
\* channel names of websocket connections
ChannelNames == {"s1", "s2"}
\* the user_id argument the consumers pass for a connection: str(user.id)
\* of an authenticated user, None otherwise
UserIdOf(name) == IF name = "s1" THEN "7" ELSE NoneVal
\* the consumers that call the tracker, each with its own channel name
\* (LogStreamConsumer, MetricsConsumer); a consumer handles its events one
\* after the other, so it has at most one call in progress
Tasks == ChannelNames \cup {"m1"}
NoTask == "<no task>"
NoCall == [op |-> "none"]
EmptyDict == [k \in {} |-> {}]

\* len(self._connections.get(group, set()))
get_count(conns, group) ==
    IF group \in DOMAIN conns THEN Cardinality(conns[group]) ELSE 0

RECURSIVE SumOver(_, _)
SumOver(conns, keys) ==
    IF keys = {} THEN 0
    ELSE LET g == CHOOSE x \in keys : TRUE
         IN  Cardinality(conns[g]) + SumOver(conns, keys \ {g})

\* sum(len(conns) for conns in self._connections.values())
get_total_count(conns) == SumOver(conns, DOMAIN conns)

\* {group: len(conns) for group, conns in self._connections.items()}
get_all_counts(conns) == [g \in DOMAIN conns |-> Cardinality(conns[g])]

AddToReplacing(conns, group, name) ==
    [g \in (DOMAIN conns) \cup {group} |-> IF g = group THEN {name} ELSE conns[g]]

\* add_connection, lines 59-61
AddTo(conns, group, name) ==
    [g \in (DOMAIN conns) \cup {group} |->
        IF g = group
        THEN (IF g \in DOMAIN conns THEN conns[g] ELSE {}) \cup {name}
        ELSE conns[g]]

RemoveFromKeepingEmpty(conns, group, name) ==
    IF group \notin DOMAIN conns THEN conns
    ELSE [conns EXCEPT ![group] = @ \ {name}]

RemoveFromDroppingGroup(conns, group, name) ==
    [g \in (DOMAIN conns) \ {group} |-> conns[g]]

\* remove_connection, lines 75-78
RemoveFrom(conns, group, name) ==
    IF group \notin DOMAIN conns THEN conns
    ELSE IF conns[group] \ {name} = {}
    THEN [g \in (DOMAIN conns) \ {group} |-> conns[g]]
    ELSE [conns EXCEPT ![group] = @ \ {name}]

\* add_connection, lines 63-68 (connected_at is left out)
AddUserInfo(info, group, name, user_id) ==
    IF Truthy(user_id)
    THEN [n \in (DOMAIN info) \cup {name} |->
            IF n = name THEN [user_id |-> user_id, group |-> group] ELSE info[n]]
    ELSE info

\* self._user_info.pop(channel_name, None)
PopUserInfo(info, name) == [n \in (DOMAIN info) \ {name} |-> info[n]]

AddReturnIncrement(before, after, group) == get_count(before, group) + 1

\* add_connection: return len(self._connections[group])
AddReturn(before, after, group) == Cardinality(after[group])

RemoveReturnStale(before, after, group) == get_count(before, group)

\* remove_connection: return len(self._connections.get(group, set()))
RemoveReturn(before, after, group) == get_count(after, group)

(***************************************************************************)
(* LogStreamConsumer (consumers.py, lines 136-261)                         *)
(***************************************************************************)
WarningFrame ==
    [type |-> "message",
     data |-> [kind |-> "object",
               val |-> [level |-> "Warning", message |-> <<"w">>, source |-> "db",
                        environment |-> "prod"]]]
ErrorDbFrame ==
    [type |-> "message",
     data |-> [kind |-> "object",
               val |-> [level |-> "error", message |-> <<"e">>, source |-> "db",
                        environment |-> "prod"]]]

\* the normalized events published to log_stream
StreamEvents ==
    {normalize_log(JsonLoads(f.data).value, 0) :
        f \in {InfoFrame, ParsedErrorFrame, WarningFrame, ErrorDbFrame}}

\* the event lists of log_batch messages
StreamBatches ==
    {<<normalize_log(JsonLoads(ErrorDbFrame.data).value, 0),
       normalize_log(JsonLoads(WarningFrame.data).value, 0)>>}

\* the 'filters' objects of set_filters messages
FilterChoices ==
    {EmptyDict,
     [level |-> "error"],
     [level |-> "error", source |-> "db"],
     [level |-> "error", source |-> "db", environment |-> "prod"]}

FilteredOutByLevelOnly(flt, log_data) ==
    /\ flt # EmptyDict
    /\ "level" \in DOMAIN flt
    /\ Get(log_data, "level", NoneVal) # flt["level"]

\* new_log, lines 234-245: the handler returns without sending
FilteredOut(flt, log_data) ==
    /\ flt # EmptyDict
    /\ \/ "level" \in DOMAIN flt /\ Get(log_data, "level", NoneVal) # flt["level"]
       \/ "source" \in DOMAIN flt /\ Get(log_data, "source", NoneVal) # flt["source"]
       \/ "environment" \in DOMAIN flt
             /\ Get(log_data, "environment", NoneVal) # flt["environment"]

\* new_log, lines 247-251: the frame written to the websocket
NewLogFrame(event) ==
    [type |-> "new_log", data |-> event.data, timestamp |-> event.timestamp]

\* log_batch, lines 256-261
LogBatchFrame(event) ==
    [type |-> "log_batch", data |-> event.data, count |-> Len(event.data),
     timestamp |-> event.timestamp]

\* the message of a log_batch group_send
LogBatchMessage(evs, t) ==
    [type |-> "log_batch", data |-> evs, timestamp |-> IsoFormat(t)]

\* the connections that joined log_stream (channel_layer.group_add)
StreamMembers == {c \in ChannelNames : <<LogStreamGroup, c>> \in groups}

\* group_send to log_stream: the handler named by the message type runs
\* in every member connection
DeliverStream(msg) ==
    [c \in ChannelNames |->
        IF c \notin StreamMembers THEN lsinbox[c]
        ELSE IF msg.type = "new_log"
        THEN (IF FilteredOut(filters[c], msg.data) THEN lsinbox[c]
              ELSE Append(lsinbox[c], NewLogFrame(msg)))
        ELSE Append(lsinbox[c], LogBatchFrame(msg))]

\* a SlidingWindowCounter that was not constructed yet
NoCounter == [window_seconds |-> 0, events |-> <<>>]

(***************************************************************************)
(* Initial state: a constructed bridge whose run() has not started, no     *)
(* websocket connected                                                     *)
(***************************************************************************)
Init ==
    /\ pc = "idle"
    /\ running = FALSE
    /\ redis = NoHandle
    /\ pubsub = NoHandle
    /\ channel_layer = FALSE
    /\ reconnect_delay = InitialReconnectDelay
    /\ subscribed = FALSE
    /\ openClients = {}
    /\ openPubsubs = {}
    /\ nextHandle = 0
    /\ cur = NoEvent
    /\ recorded = <<>>
    /\ sends = <<>>
    /\ groups = {}
    /\ notification_group = [c \in NConns |-> ""]
    /\ ncstate = [c \in NConns |-> "closed"]
    /\ inbox = [c \in NConns |-> <<>>]
    /\ now = 0
    /\ stopCalled = FALSE
    /\ cancelled = FALSE
    /\ transportErrors = 0
    /\ failures = 0
    /\ received = 0
    /\ slept = <<>>
    /\ sleptAll = <<>>
    /\ malformed = {}
    /\ processed = {}
    /\ connections = EmptyDict
    /\ user_info = EmptyDict
    /\ lock = NoTask
    /\ tpc = [t \in Tasks |-> "idle"]
    /\ targs = [t \in Tasks |-> NoCall]
    /\ calls = <<>>
    /\ lsopen = {}
    /\ filters = [c \in ChannelNames |-> EmptyDict]
    /\ lsinbox = [c \in ChannelNames |-> <<>>]
    /\ published = <<>>
    /\ ctr = NoCounter
    /\ added = <<>>
    /\ lastCount = <<>>
    /\ logs_counter = <<>>
    /\ errors_counter = <<>>
    /\ warnings_counter = <<>>
    /\ criticals_counter = <<>>
    /\ level_counters = EmptyDict
    /\ source_counters = <<>>
    /\ logs_history = <<>>
    /\ errors_history = <<>>
    /\ last_sample_time = 0
    /\ snapshot = <<>>
    /\ logged = <<>>
    /\ ppc = "idle"
    /\ metrics = <<>>
    /\ broadcasts = <<>>
    /\ pcancelled = FALSE
    /\ iterations = 0
    /\ iter_errors = 0
    /\ raw = <<>>
    /\ normalized = <<>>
    /\ lsqueue = [c \in ChannelNames |-> <<>>]
    /\ lswriting = [c \in ChannelNames |-> <<>>]
    /\ lpc = [c \in ChannelNames |-> "closed"]

(***************************************************************************)
(* RedisPubSubBridge.disconnect, by its awaits.  kind is "err" for the     *)
(* call in run()'s exception handler (line 442) and "fin" for the call     *)
(* that ends run() (line 449).                                             *)
(***************************************************************************)
AfterDisconnect(kind) == IF kind = "err" THEN "err_sleep" ELSE "returned"

\* if self._redis: ... (lines 321-326)
DisconnectRedisPart(kind, rd) ==
    IF rd # NoHandle THEN kind \o "_close" ELSE AfterDisconnect(kind)

\* if self._pubsub: ... (lines 313-319), else the redis part
DisconnectEntry(kind, ps, rd) ==
    IF ps # NoHandle THEN kind \o "_unsubscribe" ELSE DisconnectRedisPart(kind, rd)

DisconnectKinds == {"err", "fin"}

(***************************************************************************)
(* RedisPubSubBridge.run: the head of the while loop, from the test of     *)
(* self._running to the first await of the iteration (lines 412-428).      *)
(* run, ps and rd are the values of _running, _pubsub and _redis there.    *)
(***************************************************************************)
LoopHead(run, ps, rd) ==
    IF ~run
    THEN \* the loop ends: await self.disconnect() (line 449)
         /\ pc' = DisconnectEntry("fin", ps, rd)
         /\ running' = FALSE
         /\ UNCHANGED <<redis, openClients, nextHandle>>
    ELSE IF ps = NoHandle
    THEN \* connect(): from_url creates a client, then await ping()
         /\ pc' = "connect_ping"
         /\ running' = run
         /\ redis' = nextHandle + 1
         /\ openClients' = openClients \cup {nextHandle + 1}
         /\ nextHandle' = nextHandle + 1
    ELSE \* async for message in self._pubsub.listen()
         /\ pc' = "listening"
         /\ running' = run
         /\ UNCHANGED <<redis, openClients, nextHandle>>

\* run() is started on the bridge: self._running = True, first iteration
RunStart ==
    /\ pc = "idle"
    /\ LoopHead(TRUE, pubsub, redis)
    /\ UNCHANGED <<pubsub, channel_layer, reconnect_delay, subscribed, openPubsubs,
                   cur, fanoutVars, consumerVars, historyVars, now, msgHistory, restVars,
                   sideVars>>

(***************************************************************************)
(* RedisPubSubBridge.connect                                               *)
(***************************************************************************)
\* ping() returned: self._pubsub = self._redis.pubsub(), await subscribe()
PingOk ==
    /\ pc = "connect_ping"
    /\ pubsub' = redis
    /\ openPubsubs' = openPubsubs \cup {redis}
    /\ subscribed' = FALSE
    /\ pc' = "connect_subscribe"
    /\ UNCHANGED <<running, redis, channel_layer, reconnect_delay, openClients,
                   nextHandle, cur, fanoutVars, consumerVars, historyVars, now,
                   msgHistory, restVars,
                   sideVars>>

\* ping() raised: connect() returns False, run() sleeps the delay
PingFail ==
    /\ pc = "connect_ping"
    /\ failures < MaxFailures
    /\ failures' = failures + 1
    /\ pc' = "backoff"
    /\ UNCHANGED <<running, redis, pubsub, channel_layer, reconnect_delay, subscribed,
                   openClients, openPubsubs, nextHandle, cur, fanoutVars,
                   consumerVars, stopCalled, cancelled, transportErrors, received,
                   slept, sleptAll, now, msgHistory, restVars,
                   sideVars>>

\* subscribe() returned: channel layer fetched, delay reset, connect()
\* returns True and run() starts listening
SubscribeReturns(layer) ==
    /\ pc = "connect_subscribe"
    /\ subscribed' = TRUE
    /\ channel_layer' = layer
    /\ reconnect_delay' = DelayAfterSuccess(reconnect_delay)
    /\ slept' = <<>>
    /\ pc' = "listening"
    /\ UNCHANGED <<running, redis, pubsub, openClients, openPubsubs, nextHandle, cur,
                   fanoutVars, consumerVars, stopCalled, cancelled, transportErrors,
                   failures, received, sleptAll, now, msgHistory, restVars,
                   sideVars>>

\* the project configures CHANNEL_LAYERS (config/settings.py lines 58-70):
\* get_channel_layer() returns the layer
SubscribeOk == SubscribeReturns(TRUE)

\* a deployment without CHANNEL_LAYERS: get_channel_layer() returns None
SubscribeOkNoLayer == SubscribeReturns(FALSE)

\* subscribe() raised: connect() returns False with self._pubsub still set
SubscribeFail ==
    /\ pc = "connect_subscribe"
    /\ failures < MaxFailures
    /\ failures' = failures + 1
    /\ pc' = "backoff"
    /\ UNCHANGED <<running, redis, pubsub, channel_layer, reconnect_delay, subscribed,
                   openClients, openPubsubs, nextHandle, cur, fanoutVars,
                   consumerVars, stopCalled, cancelled, transportErrors, received,
                   slept, sleptAll, now, msgHistory, restVars,
                   sideVars>>

\* await asyncio.sleep(self._reconnect_delay) returned (line 419): the delay
\* is doubled and the loop continues
BackoffDone ==
    /\ pc = "backoff"
    /\ slept' = Append(slept, reconnect_delay)
    /\ sleptAll' = Append(sleptAll, reconnect_delay)
    /\ reconnect_delay' = NextDelay(reconnect_delay)
    /\ LoopHead(running, pubsub, redis)
    /\ UNCHANGED <<pubsub, channel_layer, subscribed, openPubsubs, cur, fanoutVars,
                   consumerVars, stopCalled, cancelled, transportErrors, failures,
                   received, now, msgHistory, restVars,
                   sideVars>>

(***************************************************************************)
(* run(): listening (lines 428-431) and _process_message                   *)
(***************************************************************************)
RecordCallWhenLayer(rec, entry) == IF channel_layer THEN Append(rec, entry) ELSE rec

\* metrics_aggregator.record_log(log_data) (line 349), before the test of
\* the channel layer
RecordCall(rec, entry) == Append(rec, entry)

StopRequestedNever(run) == FALSE

\* if not self._running: break (lines 429-430)
StopRequested(run) == ~run

\* listen() yields frame f
Receive(f) ==
    /\ pc = "listening"
    /\ subscribed
    /\ received < MaxMsgs
    /\ received' = received + 1
    /\ IF StopRequested(running)
       THEN \* if not self._running: break
            /\ LoopHead(FALSE, pubsub, redis)
            /\ UNCHANGED <<cur, recorded, msgHistory>>
       ELSE IF ~Normalizes(f)
       THEN \* not a message, or dropped by one of the except clauses
            /\ pc' = "listening"
            /\ malformed' = IF IsMessage(f) THEN malformed \cup {received + 1}
                             ELSE malformed
            /\ UNCHANGED <<running, redis, openClients, nextHandle, cur, recorded,
                           processed>>
       ELSE LET ev == normalize_log(JsonLoads(f.data).value, now)
            IN  /\ recorded' = RecordCall(recorded,
                                          [n |-> received + 1, ev |-> ev, t |-> now])
                /\ IF channel_layer
                   THEN /\ pc' = "send_log"
                        /\ cur' = [n |-> received + 1, ev |-> ev,
                                   msg |-> NewLogMessage(ev, now)]
                        /\ UNCHANGED processed
                   ELSE /\ pc' = "listening"
                        /\ cur' = NoEvent
                        /\ processed' = processed \cup {received + 1}
                /\ UNCHANGED <<running, redis, openClients, nextHandle, malformed>>
    /\ UNCHANGED <<pubsub, channel_layer, reconnect_delay, subscribed, openPubsubs,
                   sends, inbox, consumerVars, stopCalled, cancelled, transportErrors,
                   failures, slept, sleptAll, now, restVars,
                   sideVars>>

SendRecordAlertFirst(group, ok) ==
    [n |-> cur.n, group |-> IF group = LogStreamGroup THEN AlertGroup ELSE LogStreamGroup,
     msg |-> cur.msg, ok |-> ok]

SendRecordOfPrevious(group, ok) ==
    [n |-> IF cur.n > 1 THEN cur.n - 1 ELSE cur.n, group |-> group, msg |-> cur.msg,
     ok |-> ok]

\* one call of group_send that returned (ok) or raised, for event number n
SendRecord(group, ok) ==
    [n |-> cur.n, group |-> group, msg |-> cur.msg, ok |-> ok]

\* group_send('log_stream', ...) returned (line 360)
SendLogOk ==
    /\ pc = "send_log"
    /\ sends' = Append(sends, SendRecord(LogStreamGroup, TRUE))
    /\ inbox' = Deliver(LogStreamGroup, cur.msg)
    /\ IF NeedsAlert(Lower(cur.ev.level))
       THEN /\ pc' = "send_alert"
            /\ cur' = [cur EXCEPT !.msg = AlertMessage(cur.ev, now)]
            /\ UNCHANGED processed
       ELSE /\ pc' = "listening"
            /\ cur' = NoEvent
            /\ processed' = processed \cup {cur.n}
    /\ UNCHANGED <<running, redis, pubsub, channel_layer, reconnect_delay, subscribed,
                   openClients, openPubsubs, nextHandle, recorded, consumerVars,
                   historyVars, now, malformed, restVars,
                   sideVars>>

AfterSendErrorReconnect == "err_unsubscribe"

\* where run() is after _process_message caught the exception of a publish
\* (lines 385-386): back in the `async for` of the listener
AfterSendError == "listening"

\* group_send('log_stream', ...) raised: except Exception (line 385)
SendLogFail ==
    /\ pc = "send_log"
    /\ sends' = Append(sends, SendRecord(LogStreamGroup, FALSE))
    /\ pc' = AfterSendError
    /\ cur' = NoEvent
    /\ processed' = processed \cup {cur.n}
    /\ UNCHANGED <<running, redis, pubsub, channel_layer, reconnect_delay, subscribed,
                   openClients, openPubsubs, nextHandle, recorded, inbox, consumerVars,
                   historyVars, now, malformed, restVars,
                   sideVars>>

\* group_send('notifications_broadcast', ...) returned (line 379)
SendAlertOk ==
    /\ pc = "send_alert"
    /\ sends' = Append(sends, SendRecord(AlertGroup, TRUE))
    /\ inbox' = Deliver(AlertGroup, cur.msg)
    /\ pc' = "listening"
    /\ cur' = NoEvent
    /\ processed' = processed \cup {cur.n}
    /\ UNCHANGED <<running, redis, pubsub, channel_layer, reconnect_delay, subscribed,
                   openClients, openPubsubs, nextHandle, recorded, consumerVars,
                   historyVars, now, malformed, restVars,
                   sideVars>>

\* group_send('notifications_broadcast', ...) raised: except Exception
SendAlertFail ==
    /\ pc = "send_alert"
    /\ sends' = Append(sends, SendRecord(AlertGroup, FALSE))
    /\ pc' = AfterSendError
    /\ cur' = NoEvent
    /\ processed' = processed \cup {cur.n}
    /\ UNCHANGED <<running, redis, pubsub, channel_layer, reconnect_delay, subscribed,
                   openClients, openPubsubs, nextHandle, recorded, inbox, consumerVars,
                   historyVars, now, malformed, restVars,
                   sideVars>>

\* listen() raised TimeoutError: `continue` (lines 436-439)
ListenTimeout ==
    /\ pc = "listening"
    /\ subscribed
    /\ LoopHead(running, pubsub, redis)
    /\ UNCHANGED <<pubsub, channel_layer, reconnect_delay, subscribed, openPubsubs,
                   cur, fanoutVars, consumerVars, historyVars, now, msgHistory, restVars,
                   sideVars>>

\* listen() raised any other exception (the connection dropped):
\* except Exception (line 440), await self.disconnect()
TransportError ==
    /\ pc = "listening"
    /\ subscribed
    /\ transportErrors' = transportErrors + 1
    /\ running' = FALSE
    /\ pc' = DisconnectEntry("err", pubsub, redis)
    /\ UNCHANGED <<redis, pubsub, channel_layer, reconnect_delay, subscribed,
                   openClients, openPubsubs, nextHandle, cur, fanoutVars,
                   consumerVars, stopCalled, cancelled, failures, received, slept,
                   sleptAll, now, msgHistory, restVars,
                   sideVars>>

(***************************************************************************)
(* disconnect(), after each of its awaits                                  *)
(***************************************************************************)
\* unsubscribe() returned: await self._pubsub.close()
Unsubscribed(kind) ==
    /\ pc = kind \o "_unsubscribe"
    /\ subscribed' = FALSE
    /\ pc' = kind \o "_pubsub_close"
    /\ UNCHANGED <<running, redis, pubsub, channel_layer, reconnect_delay, openClients,
                   openPubsubs, nextHandle, cur, fanoutVars, consumerVars,
                   historyVars, now, msgHistory, restVars,
                   sideVars>>

\* unsubscribe() raised: `except Exception: pass` skips close(); the
\* reference is dropped
UnsubscribeFail(kind) ==
    /\ pc = kind \o "_unsubscribe"
    /\ subscribed' = FALSE
    /\ pubsub' = NoHandle
    /\ pc' = DisconnectRedisPart(kind, redis)
    /\ UNCHANGED <<running, redis, channel_layer, reconnect_delay, openClients,
                   openPubsubs, nextHandle, cur, fanoutVars, consumerVars,
                   historyVars, now, msgHistory, restVars,
                   sideVars>>

\* close() of the PubSub returned: self._pubsub = None
PubsubClosed(kind) ==
    /\ pc = kind \o "_pubsub_close"
    /\ openPubsubs' = openPubsubs \ {pubsub}
    /\ pubsub' = NoHandle
    /\ pc' = DisconnectRedisPart(kind, redis)
    /\ UNCHANGED <<running, redis, channel_layer, reconnect_delay, subscribed,
                   openClients, nextHandle, cur, fanoutVars, consumerVars,
                   historyVars, now, msgHistory, restVars,
                   sideVars>>

\* close() of the client returned: its pool drops every connection, the
\* one of its PubSub included; self._redis = None
RedisClosed(kind) ==
    /\ pc = kind \o "_close"
    /\ openClients' = openClients \ {redis}
    /\ openPubsubs' = openPubsubs \ {redis}
    /\ redis' = NoHandle
    /\ pc' = AfterDisconnect(kind)
    /\ UNCHANGED <<running, pubsub, channel_layer, reconnect_delay, subscribed,
                   nextHandle, cur, fanoutVars, consumerVars, historyVars, now,
                   msgHistory, restVars,
                   sideVars>>

\* await asyncio.sleep(self._reconnect_delay) of the exception handler
\* returned (line 443): the delay is doubled, the while test comes next
ErrSleepDone ==
    /\ pc = "err_sleep"
    /\ slept' = Append(slept, reconnect_delay)
    /\ sleptAll' = Append(sleptAll, reconnect_delay)
    /\ reconnect_delay' = NextDelay(reconnect_delay)
    /\ LoopHead(running, pubsub, redis)
    /\ UNCHANGED <<pubsub, channel_layer, subscribed, openPubsubs, cur, fanoutVars,
                   consumerVars, stopCalled, cancelled, transportErrors, failures,
                   received, now, msgHistory, restVars,
                   sideVars>>

(***************************************************************************)
(* stop() and cancellation of the run task                                 *)
(***************************************************************************)
\* the awaits inside the try block of run()
TryAwaits ==
    {"connect_ping", "connect_subscribe", "backoff", "listening", "send_log",
     "send_alert"}

\* the awaits of the exception handler and of the final disconnect()
HandlerAwaits ==
    {"err_unsubscribe", "err_pubsub_close", "err_close", "err_sleep",
     "fin_unsubscribe", "fin_pubsub_close", "fin_close"}

\* a PubSub without subscription makes listen() return at once: the while
\* loop then spins without ever reaching an await, and no other task runs
Spinning == pc = "listening" /\ ~subscribed

\* RedisPubSubBridge.stop, called by another task while run() is suspended
Stop ==
    /\ pc \in TryAwaits \cup HandlerAwaits
    /\ ~Spinning
    /\ ~stopCalled
    /\ running' = FALSE
    /\ stopCalled' = TRUE
    /\ UNCHANGED <<pc, redis, pubsub, channel_layer, reconnect_delay, subscribed,
                   openClients, openPubsubs, nextHandle, cur, fanoutVars,
                   consumerVars, cancelled, transportErrors, failures, received,
                   slept, sleptAll, now, msgHistory, restVars,
                   sideVars>>

\* task.cancel(): CancelledError is raised at the current await.  Inside the
\* try block it is caught (line 433) and run() goes to its final
\* disconnect(); in the handler or in the final disconnect() nothing
\* catches it (its `except Exception` clauses do not) and run() ends there.
Cancel ==
    /\ pc \in TryAwaits \cup HandlerAwaits
    /\ ~Spinning
    /\ ~cancelled
    /\ cancelled' = TRUE
    /\ IF pc \in TryAwaits
       THEN /\ pc' = DisconnectEntry("fin", pubsub, redis)
            /\ running' = FALSE
       ELSE /\ pc' = "returned"
            /\ UNCHANGED running
    /\ cur' = NoEvent
    /\ UNCHANGED <<redis, pubsub, channel_layer, reconnect_delay, subscribed,
                   openClients, openPubsubs, nextHandle, fanoutVars, consumerVars,
                   stopCalled, transportErrors, failures, received, slept, sleptAll,
                   now, msgHistory, restVars,
                   sideVars>>

(***************************************************************************)
(* NotificationConsumer                                                    *)
(***************************************************************************)
\* connect() of a new connection of user u: joins the group of its user,
\* accepts, confirms
NConnect(c, u) ==
    /\ ncstate[c] = "closed"
    /\ notification_group' = [notification_group EXCEPT ![c] = NotificationGroupName(u)]
    /\ groups' = groups \cup {<<NotificationGroupName(u), c>>}
    /\ ncstate' = [ncstate EXCEPT ![c] = "open"]
    /\ inbox' = [inbox EXCEPT ![c] = <<[type |-> "connection"]>>]
    /\ UNCHANGED <<bridgeVars, recorded, sends, historyVars, now, msgHistory, restVars,
                   sideVars>>

\* disconnect(): leaves its group; the consumer and its socket are gone
NDisconnect(c) ==
    /\ ncstate[c] = "open"
    /\ groups' = groups \ {<<notification_group[c], c>>}
    /\ ncstate' = [ncstate EXCEPT ![c] = "closed"]
    /\ notification_group' = [notification_group EXCEPT ![c] = ""]
    /\ inbox' = [inbox EXCEPT ![c] = <<>>]
    /\ UNCHANGED <<bridgeVars, recorded, sends, historyVars, now, msgHistory, restVars,
                   sideVars>>

(***************************************************************************)
(* Specifications                                                          *)
(***************************************************************************)
\* steps the event loop and the transports are bound to take: a started
\* await of the bridge returns or raises
BridgeProgress ==
    \/ RunStart
    \/ PingOk \/ PingFail
    \/ SubscribeOk \/ SubscribeFail
    \/ BackoffDone \/ ErrSleepDone
    \/ SendLogOk \/ SendLogFail \/ SendAlertOk \/ SendAlertFail
    \/ \E kind \in DisconnectKinds :
          Unsubscribed(kind) \/ UnsubscribeFail(kind) \/ PubsubClosed(kind)
             \/ RedisClosed(kind)

Next ==
    \/ RunStart
    \/ PingOk
    \/ PingFail
    \/ SubscribeOk
    \/ SubscribeFail
    \/ BackoffDone
    \/ \E f \in Frames : Receive(f)
    \/ SendLogOk
    \/ SendLogFail
    \/ SendAlertOk
    \/ SendAlertFail
    \/ ListenTimeout
    \/ TransportError
    \/ \E kind \in DisconnectKinds : Unsubscribed(kind)
    \/ \E kind \in DisconnectKinds : UnsubscribeFail(kind)
    \/ \E kind \in DisconnectKinds : PubsubClosed(kind)
    \/ \E kind \in DisconnectKinds : RedisClosed(kind)
    \/ ErrSleepDone
    \/ Stop
    \/ Cancel
    \/ \E c \in NConns, u \in ScopeUsers : NConnect(c, u)
    \/ \E c \in NConns : NDisconnect(c)

Spec == Init /\ [][Next]_vars

\* a frame that is no 'message' and carries a well-formed payload, as the
\* frames of a pattern subscription do
PMessageFrame == [InfoFrame EXCEPT !.type = "pmessage"]

\* the bridge, handed frames of every type
FrameNext == Next \/ Receive(PMessageFrame)

FrameSpec == Init /\ [][FrameNext]_vars

\* the bridge, in deployments with and without a channel layer
LayerNext == Next \/ SubscribeOkNoLayer

LayerSpec == Init /\ [][LayerNext]_vars

\* the upstream need not send anything, nobody need call stop(): only the
\* bridge's own started awaits are fair
FairSpec == Spec /\ WF_vars(BridgeProgress)

(***************************************************************************)
(* Properties of the bridge's run loop                                     *)
(***************************************************************************)

\* C1: after a transport error raised while the bridge listens, and with
\* neither stop() called nor the task cancelled, the step that follows the
\* handler's backoff sleep is a new connect attempt (the loop does not end).
C1_TransportErrorLeadsToReconnect ==
    [][(pc = "err_sleep" /\ pc' # "err_sleep" /\ ~stopCalled' /\ ~cancelled')
          => pc' = "connect_ping"]_vars

\* C2: run() has returned only if stop() was called or the run task was
\* cancelled.
C2_ReturnsOnlyOnStopOrCancel ==
    pc = "returned" => (stopCalled \/ cancelled)

RECURSIVE Pow2(_)
Pow2(n) == IF n = 0 THEN 1 ELSE 2 * Pow2(n - 1)

\* the delay the claim expects after k consecutive failures
ExpectedDelay(k) == Min(Pow2(k), 30)

\* C3: the delay is always one of 1, 2, 4, 8, 16, 30; the i-th delay slept
\* since the last successful connect (or since the start) is min(2^(i-1), 30),
\* i.e. 1, 2, 4, 8, 16, 30, 30, ...; and the delay to sleep next is the one
\* that continues this sequence, so it is 1 right after a successful connect.
C3_BackoffSequence ==
    /\ reconnect_delay \in {1, 2, 4, 8, 16, 30}
    /\ \A i \in 1..Len(slept) : slept[i] = ExpectedDelay(i - 1)
    /\ reconnect_delay = ExpectedDelay(Len(slept))

\* C3 witness: seven consecutive failures slept 1, 2, 4, 8, 16, 30, 30 and
\* the connect that followed succeeded and reset the delay.
C3_Witness ==
    /\ sleptAll = <<1, 2, 4, 8, 16, 30, 30>>
    /\ slept = <<>>
    /\ pc = "listening"
    /\ subscribed
    /\ reconnect_delay = 1

\* C4: once stop() has been called on a running bridge, run() eventually
\* returns, whatever the bridge was waiting for.
C4_StopLeadsToReturn ==
    stopCalled ~> (pc = "returned")

\* C5: when run() has terminated, every client and every PubSub created by
\* a connect attempt has been closed.
C5_ReleasedOnReturn ==
    pc = "returned" => (openClients = {} /\ openPubsubs = {})

\* C6: while the bridge sleeps the backoff of a failed connect attempt it
\* holds no subscription handle, and it listens only on a subscription that
\* a connect attempt established.
C6_FailedConnectLeavesDisconnected ==
    /\ pc = "backoff" => pubsub = NoHandle
    /\ pc = "listening" => subscribed

(***************************************************************************)
(* Properties of message processing                                        *)
(***************************************************************************)
\* the payload of a message frame does not decode to an object
Undecodable(f) == IsMessage(f) /\ f.data.kind # "object"

\* C7: receiving a message frame whose payload does not decode, while the
\* bridge runs, changes nothing: no record, no publish, no delivery, the
\* bridge keeps listening with the same connection and delay, so later
\* frames meet the state they would have met without it.
C7_MalformedDropped ==
    [][\A f \in Frames :
          (Undecodable(f) /\ running /\ Receive(f))
             => UNCHANGED <<bridgeVars, fanoutVars, consumerVars, processed>>]_vars

\* C7 witness: the first frame did not decode and the second one was
\* recorded and published to log_stream.
C7_Witness ==
    /\ 1 \in malformed
    /\ \E i \in 1..Len(recorded) : recorded[i].n = 2
    /\ \E i \in 1..Len(sends) : sends[i].n = 2 /\ sends[i].group = LogStreamGroup
                                 /\ sends[i].ok
    /\ pc = "listening"

\* the calls of group_send made for event number n, per group
LogSends(n) ==
    {i \in 1..Len(sends) : sends[i].n = n /\ sends[i].group = LogStreamGroup}
AlertSends(n) ==
    {i \in 1..Len(sends) : sends[i].n = n /\ sends[i].group = AlertGroup}

\* the normalized event number n, as it was recorded
EventOf(n) == (CHOOSE i \in 1..Len(recorded) : recorded[i].n = n)
EventLevel(n) == recorded[EventOf(n)].ev.level
EventRecord(n) == recorded[EventOf(n)].ev

\* the log_stream publish of event n returned without raising
LogSendReturned(n) == \E i \in LogSends(n) : sends[i].ok

AlertMatches(a, ev) ==
    /\ a.severity = (IF ev.level = "critical" THEN "critical" ELSE "high")
    /\ Len(a.message) <= 200
    /\ a.message = SubSeq(ev.message, 1, Len(a.message))
    /\ (Len(ev.message) <= 200 => a.message = ev.message)
    /\ a.id = ev.id
    /\ a.log_id = ev.id

C10_AlertReachesSubscribers ==
    [][(pc = "send_alert" /\ Len(sends') = Len(sends) + 1 /\ sends'[Len(sends')].ok)
          => \A c \in NConns :
                ncstate[c] = "open" => inbox'[c] = Append(inbox[c], AlertFrame(cur.msg))]_vars

(***************************************************************************)
(* LogStreamConsumer: the handlers                                         *)
(***************************************************************************)
\* connect(): joins log_stream, registers with the tracker, accepts,
\* confirms with the user count
LConnect(c) ==
    /\ c \notin lsopen
    /\ lsopen' = lsopen \cup {c}
    /\ filters' = [filters EXCEPT ![c] = EmptyDict]
    /\ groups' = groups \cup {<<LogStreamGroup, c>>}
    /\ connections' = AddTo(connections, LogStreamGroup, c)
    /\ user_info' = AddUserInfo(user_info, LogStreamGroup, c, UserIdOf(c))
    /\ lsinbox' = [lsinbox EXCEPT ![c] =
                      <<[type |-> "connection",
                         connected_users |->
                             AddReturn(connections, connections', LogStreamGroup)]>>]
    /\ UNCHANGED <<bridgeVars, fanoutVars, notification_group, ncstate, historyVars,
                   msgHistory, now, lock, tpc, targs, calls, published,
                   counterVars, metricsVars, sideVars>>

\* disconnect(): unregisters from the tracker, leaves log_stream; the
\* consumer and its socket are gone
LDisconnect(c) ==
    /\ c \in lsopen
    /\ lsopen' = lsopen \ {c}
    /\ connections' = RemoveFrom(connections, LogStreamGroup, c)
    /\ user_info' = PopUserInfo(user_info, c)
    /\ groups' = groups \ {<<LogStreamGroup, c>>}
    /\ filters' = [filters EXCEPT ![c] = EmptyDict]
    /\ lsinbox' = [lsinbox EXCEPT ![c] = <<>>]
    /\ UNCHANGED <<bridgeVars, fanoutVars, notification_group, ncstate, historyVars,
                   msgHistory, now, lock, tpc, targs, calls, published,
                   counterVars, metricsVars, sideVars>>

\* the set_filters messages the connected connections were answered
FiltersUpdated ==
    Cardinality({<<c, i>> \in ChannelNames \X (1..(MaxPublishes + MaxSetFilters + 1)) :
                    i <= Len(lsinbox[c]) /\ lsinbox[c][i].type = "filters_updated"})

\* receive() of {"type": "set_filters", "filters": flt}
SetFilters(c, flt) ==
    /\ c \in lsopen
    /\ FiltersUpdated < MaxSetFilters
    /\ filters' = [filters EXCEPT ![c] = flt]
    /\ lsinbox' = [lsinbox EXCEPT ![c] =
                      Append(@, [type |-> "filters_updated", filters |-> flt])]
    /\ UNCHANGED <<bridgeSide, now, trackerVars, lsopen, published, counterVars,
                   metricsVars>>

\* channel_layer.group_send('log_stream', {'type': 'new_log', ...})
PublishNewLog(ev) ==
    /\ Len(published) < MaxPublishes
    /\ published' = Append(published, NewLogMessage(ev, now))
    /\ lsinbox' = DeliverStream(NewLogMessage(ev, now))
    /\ UNCHANGED <<bridgeSide, now, trackerVars, lsopen, filters, counterVars,
                   metricsVars>>

\* channel_layer.group_send('log_stream', {'type': 'log_batch', ...})
PublishLogBatch(evs) ==
    /\ Len(published) < MaxPublishes
    /\ published' = Append(published, LogBatchMessage(evs, now))
    /\ lsinbox' = DeliverStream(LogBatchMessage(evs, now))
    /\ UNCHANGED <<bridgeSide, now, trackerVars, lsopen, filters, counterVars,
                   metricsVars>>

StreamNext ==
    \/ \E c \in ChannelNames : LConnect(c)
    \/ \E c \in ChannelNames : LDisconnect(c)
    \/ \E c \in ChannelNames, flt \in FilterChoices : SetFilters(c, flt)
    \/ \E ev \in StreamEvents : PublishNewLog(ev)
    \/ \E evs \in StreamBatches : PublishLogBatch(evs)

StreamSpec == Init /\ [][StreamNext]_vars

(***************************************************************************)
(* Properties of the log stream fan-out                                    *)
(***************************************************************************)
FilterFields == {"level", "source", "environment"}

\* every condition present in the filter equals the event's field
Matches(flt, ev) == \A k \in FilterFields \cap DOMAIN flt : ev[k] = flt[k]

\* the step sends a new_log message to log_stream
NewLogPublished ==
    /\ Len(published') = Len(published) + 1
    /\ published'[Len(published')].type = "new_log"

\* connection c is written one more new_log frame, carrying the event just sent
GotNewLog(c) ==
    /\ Len(lsinbox'[c]) = Len(lsinbox[c]) + 1
    /\ lsinbox'[c][Len(lsinbox'[c])].type = "new_log"
    /\ lsinbox'[c][Len(lsinbox'[c])].data = published'[Len(published')].data

\* C11: when a new_log event is sent to log_stream, a connected log stream
\* connection is written the event if and only if every condition present in
\* its filter (level, source, environment) equals the event's field; with an
\* empty filter it is written every event.
C11_NewLogDeliveredIffFilterMatches ==
    [][NewLogPublished =>
          \A c \in lsopen :
              /\ GotNewLog(c) <=> Matches(filters[c], published'[Len(published')].data)
              /\ ~GotNewLog(c) => lsinbox'[c] = lsinbox[c]
              /\ filters[c] = EmptyDict => GotNewLog(c)]_vars

\* a connection with a three-condition filter was written the event that
\* matches it and was not written an error event of another source
C11_Witness ==
    \E c \in lsopen :
        /\ DOMAIN filters[c] = FilterFields
        /\ Len(published) = 2
        /\ published[1].type = "new_log" /\ published[2].type = "new_log"
        /\ published[1].data.level = "error" /\ published[1].data.source # "db"
        /\ Matches(filters[c], published[2].data)
        /\ Len(lsinbox[c]) = 3
        /\ lsinbox[c][3].type = "new_log"
        /\ lsinbox[c][3].data = published[2].data

\* a warning-level event is among the events frame fr carries
CarriesWarning(fr) ==
    \/ fr.type = "new_log" /\ fr.data.level = "warning"
    \/ fr.type = "log_batch" /\ \E i \in 1..Len(fr.data) : fr.data[i].level = "warning"

\* C12: a log stream connection whose stored filter is {level: error} is
\* never written a frame (new_log or log_batch) that carries a warning-level
\* event.
C12_ErrorFilterNeverGetsWarning ==
    [][\A c \in lsopen :
          (filters[c] = [level |-> "error"] /\ Len(lsinbox'[c]) = Len(lsinbox[c]) + 1)
              => ~CarriesWarning(lsinbox'[c][Len(lsinbox'[c])])]_vars

(***************************************************************************)
(* ConnectionTracker: add_connection and remove_connection, by their       *)
(* steps.  A call is issued (the coroutine is created and scheduled),      *)
(* enters `async with self._lock` and then runs its body, which has no     *)
(* await, releases the lock and returns.                                   *)
(***************************************************************************)
TrackerOps == {"add", "remove"}

\* the calls issued and not yet returned
InProgress == {t \in Tasks : tpc[t] # "idle"}

\* consumer t calls add_connection / remove_connection for its channel name
TCall(t, op, group) ==
    /\ tpc[t] = "idle"
    /\ Len(calls) + Cardinality(InProgress) < MaxCalls
    /\ tpc' = [tpc EXCEPT ![t] = "called"]
    /\ targs' = [targs EXCEPT ![t] =
                    [op |-> op, group |-> group, name |-> t, user_id |-> UserIdOf(t),
                     inv |-> Len(calls)]]
    /\ UNCHANGED <<bridgeSide, now, connections, user_info, lock, calls,
                   streamVars, counterVars, metricsVars>>

\* async with self._lock: the lock is free and is taken
TEnter(t) ==
    /\ tpc[t] = "called"
    /\ lock = NoTask
    /\ lock' = t
    /\ tpc' = [tpc EXCEPT ![t] = "locked"]
    /\ UNCHANGED <<bridgeSide, now, connections, user_info, targs, calls,
                   streamVars, counterVars, metricsVars>>

\* the body of the call, the release of the lock and the return
TBody(t) ==
    /\ tpc[t] = "locked"
    /\ LET a == targs[t]
           after == IF a.op = "add" THEN AddTo(connections, a.group, a.name)
                    ELSE RemoveFrom(connections, a.group, a.name)
           ret == IF a.op = "add" THEN AddReturn(connections, after, a.group)
                  ELSE RemoveReturn(connections, after, a.group)
       IN  /\ connections' = after
           /\ user_info' = IF a.op = "add"
                           THEN AddUserInfo(user_info, a.group, a.name, a.user_id)
                           ELSE PopUserInfo(user_info, a.name)
           /\ calls' = Append(calls,
                  [op |-> a.op, group |-> a.group, name |-> a.name, ret |-> ret,
                   inv |-> a.inv,
                   present |-> a.group \in DOMAIN connections
                                  /\ a.name \in connections[a.group],
                   sizeBefore |-> get_count(connections, a.group),
                   totalBefore |-> get_total_count(connections),
                   totalAfter |-> get_total_count(after)])
    /\ lock' = NoTask
    /\ tpc' = [tpc EXCEPT ![t] = "idle"]
    /\ targs' = [targs EXCEPT ![t] = NoCall]
    /\ UNCHANGED <<bridgeSide, now, streamVars, counterVars, metricsVars>>

TrackerNext ==
    \/ \E t \in Tasks, op \in TrackerOps, group \in TrackerGroups : TCall(t, op, group)
    \/ \E t \in Tasks : TEnter(t)
    \/ \E t \in Tasks : TBody(t)

TrackerSpec == Init /\ [][TrackerNext]_vars

(***************************************************************************)
(* Properties of the connection registry                                   *)
(***************************************************************************)
\* calls i and i+1 are for the same group and channel name
SameTarget(i) ==
    calls[i].group = calls[i + 1].group /\ calls[i].name = calls[i + 1].name

\* C13: add_connection(channel, id) for an id not yet on the channel,
\* followed by remove_connection(channel, id), returns the channel's count
\* and the total count to their values before the add; remove_connection of
\* an id that is absent (the channel missing included) returns the unchanged
\* count and changes no count.
C13_AddThenRemoveRestoresCount ==
    \A i \in 1..Len(calls) :
        /\ (/\ i < Len(calls)
            /\ calls[i].op = "add" /\ ~calls[i].present
            /\ calls[i + 1].op = "remove" /\ SameTarget(i))
              => /\ calls[i + 1].ret = calls[i].sizeBefore
                 /\ calls[i + 1].totalAfter = calls[i].totalBefore
        /\ (calls[i].op = "remove" /\ ~calls[i].present)
              => /\ calls[i].ret = calls[i].sizeBefore
                 /\ calls[i].totalAfter = calls[i].totalBefore

\* a new id was added to a channel that had a member and removed again
C13_Witness ==
    /\ Len(calls) = 3
    /\ calls[2].op = "add" /\ ~calls[2].present /\ calls[2].sizeBefore = 1
    /\ calls[3].op = "remove" /\ SameTarget(2)
    /\ calls[3].ret = 1
    /\ calls[3].totalAfter = 1

\* every completed call is an add to group, the ids pairwise distinct
OnlyDistinctAdds(group) ==
    /\ \A i \in 1..Len(calls) : calls[i].op = "add" /\ calls[i].group = group
    /\ \A i, j \in 1..Len(calls) : i # j => calls[i].name # calls[j].name

\* C14: after N add_connection calls with pairwise distinct ids on one
\* channel, in whatever order the calls were issued, took the lock and ran,
\* get_count(channel) is N and the counts returned are exactly 1..N, none
\* repeated.
C14_DistinctAddsCountN ==
    \A group \in TrackerGroups :
        OnlyDistinctAdds(group) =>
            /\ get_count(connections, group) = Len(calls)
            /\ {calls[i].ret : i \in 1..Len(calls)} = 1..Len(calls)
            /\ \A i, j \in 1..Len(calls) : i # j => calls[i].ret # calls[j].ret

\* three adds with distinct ids, all issued before any of them returned
C14_Witness ==
    /\ Len(calls) = 3
    /\ OnlyDistinctAdds("log_stream")
    /\ \A i \in 1..3 : calls[i].inv = 0
    /\ InProgress = {}

\* C15: add_connection(channel, id) for an id already registered on the
\* channel leaves the registry's membership and the channel's count
\* unchanged, returns that count, and returns the same count as the add of
\* the same id that ran just before it.
C15_AddIdempotent ==
    /\ [](\A i \in 1..Len(calls) :
            /\ (calls[i].op = "add" /\ calls[i].present)
                  => /\ calls[i].ret = calls[i].sizeBefore
                     /\ calls[i].totalAfter = calls[i].totalBefore
            /\ (/\ i < Len(calls)
                /\ calls[i].op = "add" /\ calls[i + 1].op = "add" /\ SameTarget(i))
                  => calls[i + 1].ret = calls[i].ret)
    /\ [][\A t \in Tasks :
            (/\ tpc[t] = "locked" /\ tpc'[t] = "idle"
             /\ targs[t].op = "add"
             /\ targs[t].group \in DOMAIN connections
             /\ targs[t].name \in connections[targs[t].group])
                => connections' = connections]_vars

\* an id was added twice in a row to a channel that has another member
C15_Witness ==
    /\ Len(calls) = 3
    /\ calls[2].op = "add" /\ calls[3].op = "add" /\ SameTarget(2)
    /\ ~calls[2].present /\ calls[3].present
    /\ calls[2].ret = 2 /\ calls[3].ret = 2

\* the registry as a set of <<group, id>> pairs
Membership(conns) ==
    {<<g, c>> \in TrackerGroups \X Tasks : g \in DOMAIN conns /\ c \in conns[g]}

\* the membership a sequential registry has after the first n calls, run one
\* after the other in the order of the list
RECURSIVE Replay(_)
Replay(n) ==
    IF n = 0 THEN {}
    ELSE IF calls[n].op = "add"
    THEN Replay(n - 1) \cup {<<calls[n].group, calls[n].name>>}
    ELSE Replay(n - 1) \ {<<calls[n].group, calls[n].name>>}

SizeIn(pairs, group) == Cardinality({p \in pairs : p[1] = group})

\* C16: the calls take effect one at a time, each between its invocation and
\* its return: the count a call returns is the size its channel has in the
\* sequential run of the calls up to and including it, the membership is
\* that of the sequential run of all completed calls in an order that keeps
\* every call after the calls that returned before it was issued, and
\* get_count, get_total_count and get_all_counts count every completed call.
C16_Linearizable ==
    /\ \A i \in 1..Len(calls) :
          /\ calls[i].ret = SizeIn(Replay(i), calls[i].group)
          /\ calls[i].inv < i
    /\ Membership(connections) = Replay(Len(calls))
    /\ \A g \in TrackerGroups :
          get_count(connections, g) = SizeIn(Replay(Len(calls)), g)
    /\ get_total_count(connections) = Cardinality(Replay(Len(calls)))
    /\ \A g \in TrackerGroups :
          SizeIn(Replay(Len(calls)), g) > 0
              => /\ g \in DOMAIN get_all_counts(connections)
                 /\ get_all_counts(connections)[g] = SizeIn(Replay(Len(calls)), g)

\* an add and a remove on one channel were in progress together, the remove
\* took effect last and left one member
C16_Witness ==
    /\ Len(calls) = 3
    /\ calls[2].op = "add" /\ calls[3].op = "remove"
    /\ calls[2].group = calls[3].group
    /\ calls[2].inv = 1 /\ calls[3].inv = 1
    /\ calls[3].present /\ calls[3].ret = 1

RECURSIVE SumOfCounts(_, _)
SumOfCounts(conns, gs) ==
    IF gs = {} THEN 0
    ELSE LET g == CHOOSE x \in gs : TRUE
         IN  get_count(conns, g) + SumOfCounts(conns, gs \ {g})

\* C17: the registry never retains a channel with an empty connection set:
\* every channel get_all_counts lists has a positive count, a channel whose
\* last connection was just removed is not listed, and get_total_count is the
\* sum of the channels' counts.
C17_NoEmptyChannel ==
    /\ \A g \in DOMAIN connections : connections[g] # {}
    /\ \A g \in DOMAIN get_all_counts(connections) : get_all_counts(connections)[g] > 0
    /\ (/\ InProgress = {} /\ Len(calls) > 0
        /\ calls[Len(calls)].op = "remove" /\ calls[Len(calls)].ret = 0)
          => calls[Len(calls)].group \notin DOMAIN get_all_counts(connections)
    /\ get_total_count(connections) = SumOfCounts(connections, TrackerGroups)

\* the last connection of one channel was removed while another channel
\* keeps a member
C17_Witness ==
    /\ Len(calls) = 3
    /\ calls[3].op = "remove" /\ calls[3].present /\ calls[3].ret = 0
    /\ DOMAIN connections # {}
    /\ calls[3].group \notin DOMAIN connections

(***************************************************************************)
(* SlidingWindowCounter (realtime.py, lines 105-133).  The clock counts    *)
(* whole seconds; _events is the deque, oldest insertion first.            *)
(***************************************************************************)
\* the windows the aggregator constructs its counters with
Windows == {10, 60}
\* the amounts of time that pass between two calls
TimeSteps == {5, 10, 60}
\* the timestamps add() is passed explicitly
ExplicitTimestamps == {0, 5, 100}

CleanupOnce(events, cutoff) ==
    IF events # <<>> /\ events[1] < cutoff THEN Tail(events) ELSE events

RECURSIVE CleanupInclusive(_, _)
CleanupInclusive(events, cutoff) ==
    IF events # <<>> /\ events[1] <= cutoff
    THEN CleanupInclusive(Tail(events), cutoff)
    ELSE events

\* while self._events and self._events[0] < cutoff: self._events.popleft()
RECURSIVE Cleanup(_, _)
Cleanup(events, cutoff) ==
    IF events # <<>> /\ events[1] < cutoff
    THEN Cleanup(Tail(events), cutoff)
    ELSE events

\* _cleanup() at time t on a counter of the given window
Pruned(events, window, t) == Cleanup(events, t - window)

\* ts = timestamp or time.time(): a timestamp of 0 is falsy
TimestampOr(timestamp, t) == IF timestamp = 0 THEN t ELSE timestamp

\* add(timestamp) at time t: append, then _cleanup()
AddEvent(events, window, timestamp, t) ==
    Pruned(Append(events, TimestampOr(timestamp, t)), window, t)

\* SlidingWindowCounter(window_seconds=w)
NewCounter(w) ==
    /\ ctr = NoCounter
    /\ ctr' = [window_seconds |-> w, events |-> <<>>]
    /\ UNCHANGED <<bridgeSide, now, trackerVars, streamVars, added, lastCount,
                   metricsVars>>

\* time passes
Advance(d) ==
    /\ now + d <= MaxTime
    /\ now' = now + d
    /\ lastCount' = <<>>
    /\ snapshot' = <<>>
    /\ UNCHANGED <<bridgeSide, trackerVars, streamVars, ctr, added, logs_counter,
                   errors_counter, warnings_counter, criticals_counter,
                   level_counters, source_counters, logs_history, errors_history,
                   last_sample_time, logged>>

\* add(): the timestamp defaults to time.time()
CAdd ==
    /\ ctr # NoCounter
    /\ Len(added) < MaxAdds
    /\ ctr' = [ctr EXCEPT !.events = AddEvent(@, ctr.window_seconds, now, now)]
    /\ added' = Append(added, [ts |-> now, at |-> now])
    /\ lastCount' = <<>>
    /\ UNCHANGED <<bridgeSide, now, trackerVars, streamVars, metricsVars>>

\* add(timestamp)
CAddAt(timestamp) ==
    /\ ctr # NoCounter
    /\ Len(added) < MaxAdds
    /\ ctr' = [ctr EXCEPT !.events = AddEvent(@, ctr.window_seconds, timestamp, now)]
    /\ added' = Append(added, [ts |-> TimestampOr(timestamp, now), at |-> now])
    /\ lastCount' = <<>>
    /\ UNCHANGED <<bridgeSide, now, trackerVars, streamVars, metricsVars>>

\* count(): _cleanup(), then len(self._events)
CCount ==
    /\ ctr # NoCounter
    /\ ctr' = [ctr EXCEPT !.events = Pruned(@, ctr.window_seconds, now)]
    /\ lastCount' = <<Len(ctr'.events)>>
    /\ UNCHANGED <<bridgeSide, now, trackerVars, streamVars, added, metricsVars>>

CounterNext ==
    \/ \E w \in Windows : NewCounter(w)
    \/ \E d \in TimeSteps : Advance(d)
    \/ CAdd
    \/ \E timestamp \in ExplicitTimestamps : CAddAt(timestamp)
    \/ CCount

CounterSpec == Init /\ [][CounterNext]_vars

(***************************************************************************)
(* Properties of the sliding window counter                                *)
(***************************************************************************)
\* the step is a call of add() or of count()
AddOrCountStep ==
    \/ Len(added') = Len(added) + 1
    \/ lastCount' # <<>> /\ lastCount = <<>>

\* every timestamp the counter retains after the step is in the window
RetainedInWindow ==
    \A i \in 1..Len(ctr'.events) :
        /\ now' - ctr'.window_seconds <= ctr'.events[i]
        /\ ctr'.events[i] <= now'

\* the timestamps were added in non-decreasing order
NonDecreasing(a) == \A i \in 1..Len(a) : i < Len(a) => a[i].ts <= a[i + 1].ts

\* no timestamp was later than the clock when it was added
NoneAhead(a) == \A i \in 1..Len(a) : a[i].ts <= a[i].at

\* C18 (as stated): after any add() or count(), every retained timestamp lies
\* in [now - window, now], whatever timestamps the add() calls were given.
C18_RetainedInWindow ==
    [][AddOrCountStep => RetainedInWindow]_vars

\* C18 (amended): after any add() or count(), the oldest-inserted retained
\* timestamp is at least now - window; every retained timestamp lies in
\* [now - window, now] when the timestamps were added in non-decreasing order
\* and none was later than the clock at its add() (which holds when add() is
\* called without a timestamp).
C18_RetainedInWindowWhenOrdered ==
    [][AddOrCountStep =>
          /\ ctr'.events # <<>> => ctr'.events[1] >= now' - ctr'.window_seconds
          /\ (NonDecreasing(added') /\ NoneAhead(added')) => RetainedInWindow]_vars

\* an explicitly supplied earlier timestamp and a later default one were
\* added in order, the earlier one was pruned, and count() has run
C18_Witness ==
    /\ Len(added) = 2
    /\ NonDecreasing(added) /\ NoneAhead(added)
    /\ added[1].ts < added[1].at
    /\ ctr.events = <<added[2].ts>>
    /\ lastCount = <<1>>

\* the added events whose timestamp is within the most recent window
Recent == {i \in 1..Len(added) : added[i].ts >= now - ctr.window_seconds}

\* C19 (as stated): count() equals the number of added events whose timestamp
\* is at least now - W, for any sequence of add() calls.
C19_CountIsRecent ==
    lastCount # <<>> => lastCount[1] = Cardinality(Recent)

\* C19 (amended): for add() calls whose timestamps are non-decreasing in call
\* order (as when the timestamp is defaulted), count() equals the number of
\* added events whose timestamp is at least now - W.
C19_CountIsRecentWhenOrdered ==
    (lastCount # <<>> /\ NonDecreasing(added)) => lastCount[1] = Cardinality(Recent)

\* time advanced past the last add(); one event has left the window and one,
\* exactly one window old, is still counted
C19_Witness ==
    /\ Len(added) = 2
    /\ NonDecreasing(added)
    /\ now > added[2].at
    /\ added[1].ts < now - ctr.window_seconds
    /\ added[2].ts = now - ctr.window_seconds
    /\ lastCount = <<1>>

(***************************************************************************)
(* MetricsAggregator (realtime.py, lines 136-245).  A counter is its deque *)
(* of timestamps; _level_counters is a dict, _source_counters a dict whose *)
(* insertion order matters (a list of source and deque).                   *)
(***************************************************************************)
\* the events handed to record_log
RecordedEvents ==
    {normalize_log(JsonLoads(f.data).value, 0) :
        f \in {InfoFrame, CriticalFrame, ParsedErrorFrame, WarningFrame, ErrorDbFrame}}
\* the amounts of time that pass between two calls of the aggregator
MetricSteps == {10, 60}

\* level = log_data.get('level', 'info').lower()
RecordLevel(log_data) == Lower(Get(log_data, "level", "info"))

\* source = log_data.get('source') or log_data.get('service_name') or 'unknown'
RecordSource(log_data) ==
    OrElse(Get(log_data, "source", NoneVal),
           OrElse(Get(log_data, "service_name", NoneVal), "unknown"))

LevelAddFresh(lc, level, t) ==
    [l \in (DOMAIN lc) \cup {level} |-> IF l = level THEN <<t>> ELSE lc[l]]

\* lines 183-185: the counter of the level, created when missing, is added to
LevelAdd(lc, level, t) ==
    [l \in (DOMAIN lc) \cup {level} |->
        IF l = level
        THEN AddEvent(IF l \in DOMAIN lc THEN lc[l] ELSE <<>>, MinuteWindow, t, t)
        ELSE lc[l]]

\* lines 198-200: the same for the source
SourceAdd(sc, source, t) ==
    IF \E i \in 1..Len(sc) : sc[i].source = source
    THEN [i \in 1..Len(sc) |->
            IF sc[i].source = source
            THEN [sc[i] EXCEPT !.events = AddEvent(@, MinuteWindow, t, t)]
            ELSE sc[i]]
    ELSE Append(sc, [source |-> source, events |-> AddEvent(<<>>, MinuteWindow, t, t)])

RatePerSecondOfMinute(events, window) == [num |-> Len(events), den |-> MinuteWindow]

\* rate_per_second(), as the fraction num / den (0 / den for an empty window)
RatePerSecond(events, window) == [num |-> Len(events), den |-> window]

\* round(rate, 1), in tenths; the rates of the aggregator have den = 10
RoundTenths(rate) == (rate.num * 10) \div rate.den

AppendUnbounded(h, x) == Append(h, x)

\* deque(maxlen=300).append
AppendBounded(h, x) ==
    IF Len(h) >= HistoryCapacity THEN Append(Tail(h), x) ELSE Append(h, x)

ErrorsAppendShort(h, x) ==
    IF Len(h) >= HistoryCapacity - 1 THEN Append(Tail(h), x) ELSE Append(h, x)

\* self._errors_history.append(...) (line 210): a deque of the same maxlen as
\* the one of the logs series (lines 170-171)
ErrorsAppend(h, x) == AppendBounded(h, x)

SampleAlways(t) == TRUE

\* if now - self._last_sample_time >= 1.0
SampleDue(t) == t - last_sample_time >= 1

CountsAsErrorUnlessCritical(level) == level = "error"

\* lines 188-194: the levels added to the error counter
CountsAsError(level) == level \in {"error", "critical"}

\* the effect of record_log(log_data) on the aggregator, at the current time
DoRecord(log_data) ==
    /\ LET level == RecordLevel(log_data)
           logs == AddEvent(logs_counter, LogsWindow, now, now)
           errors == IF CountsAsError(level)
                     THEN AddEvent(errors_counter, MinuteWindow, now, now)
                     ELSE errors_counter
       IN  /\ level_counters' = LevelAdd(level_counters, level, now)
           /\ warnings_counter' = IF level = "warning"
                                  THEN AddEvent(warnings_counter, MinuteWindow, now, now)
                                  ELSE warnings_counter
           /\ criticals_counter' = IF level = "critical"
                                   THEN AddEvent(criticals_counter, MinuteWindow, now, now)
                                   ELSE criticals_counter
           /\ source_counters' = SourceAdd(source_counters, RecordSource(log_data), now)
           /\ logged' = Append(logged, [level |-> level,
                                        source |-> RecordSource(log_data), t |-> now])
           /\ IF SampleDue(now)
              THEN \* _sample_history(now): both reads prune their counter
                   /\ logs_counter' = Pruned(logs, LogsWindow, now)
                   /\ errors_counter' = Pruned(errors, MinuteWindow, now)
                   /\ logs_history' = AppendBounded(logs_history,
                          <<now, RatePerSecond(logs_counter', LogsWindow)>>)
                   /\ errors_history' = ErrorsAppend(errors_history,
                          <<now, Len(errors_counter')>>)
                   /\ last_sample_time' = now
              ELSE /\ logs_counter' = logs
                   /\ errors_counter' = errors
                   /\ UNCHANGED <<logs_history, errors_history, last_sample_time>>
    /\ snapshot' = <<>>

\* record_log(log_data)
RecordLog(log_data) ==
    /\ now > 0
    /\ Len(logged) < MaxRecords
    /\ DoRecord(log_data)
    /\ UNCHANGED <<bridgeSide, now, trackerVars, streamVars, counterVars>>

LevelDistributionWithZeros(lc) == [l \in DOMAIN lc |-> Len(lc[l])]

\* get_metrics, lines 215-219, on the counters as count() left them
LevelDistribution(lc) ==
    [l \in {k \in DOMAIN lc : Len(lc[k]) > 0} |-> Len(lc[l])]

\* inserts entry x into the list s, sorted by count non-increasing, behind
\* the entries of the same count (list.sort is stable)
RECURSIVE InsertByCount(_, _)
InsertByCount(s, x) ==
    IF s = <<>> THEN <<x>>
    ELSE IF Head(s).count >= x.count THEN <<Head(s)>> \o InsertByCount(Tail(s), x)
    ELSE <<x>> \o s

\* top_sources.sort(key=lambda x: x['count'], reverse=True)
RECURSIVE SortByCount(_)
SortByCount(s) ==
    IF s = <<>> THEN <<>>
    ELSE InsertByCount(SortByCount(SubSeq(s, 1, Len(s) - 1)), s[Len(s)])

\* get_metrics, lines 222-226: the sources with a count above 0, in
\* insertion order
RECURSIVE NonzeroSources(_)
NonzeroSources(sc) ==
    IF sc = <<>> THEN <<>>
    ELSE (IF Len(Head(sc).events) > 0
          THEN <<[source |-> Head(sc).source, count |-> Len(Head(sc).events)]>>
          ELSE <<>>) \o NonzeroSources(Tail(sc))

TopSourcesUnsorted(sc) == Take(NonzeroSources(sc), TopSourcesLimit)

\* get_metrics, lines 222-228
TopSources(sc) == Take(SortByCount(NonzeroSources(sc)), TopSourcesLimit)

\* the effect of get_metrics(): every count() and rate_per_second() reads the
\* clock in _cleanup() (line 121) and prunes its counter.  t1 is the time read
\* in the loops over the level and source counters (lines 216-226), t2 the
\* time read while the returned dict is built (lines 230-234).
DoGetMetricsReading(t1, t2) ==
    /\ logs_counter' = Pruned(logs_counter, LogsWindow, t2)
    /\ errors_counter' = Pruned(errors_counter, MinuteWindow, t2)
    /\ warnings_counter' = Pruned(warnings_counter, MinuteWindow, t2)
    /\ criticals_counter' = Pruned(criticals_counter, MinuteWindow, t2)
    /\ level_counters' = [l \in DOMAIN level_counters |->
                             Pruned(level_counters[l], MinuteWindow, t1)]
    /\ source_counters' = [i \in 1..Len(source_counters) |->
                              [source_counters[i] EXCEPT
                                  !.events = Pruned(@, MinuteWindow, t1)]]
    /\ snapshot' =
          <<[logs_per_second_tenths |->
                 RoundTenths(RatePerSecond(logs_counter', LogsWindow)),
             errors_per_minute |-> Len(errors_counter'),
             warnings_per_minute |-> Len(warnings_counter'),
             criticals_per_minute |-> Len(criticals_counter'),
             connected_users |-> get_count(connections, LogStreamGroup),
             top_sources |-> TopSources(source_counters'),
             level_distribution |-> LevelDistribution(level_counters')]>>
    /\ UNCHANGED <<logs_history, errors_history, last_sample_time, logged>>

\* get_metrics() with every read of the clock returning t
DoGetMetricsAt(t) == DoGetMetricsReading(t, t)

DoGetMetrics == DoGetMetricsAt(now)

\* get_metrics()
GetMetrics ==
    /\ now > 0
    /\ DoGetMetrics
    /\ UNCHANGED <<bridgeSide, now, trackerVars, streamVars, counterVars>>

MetricsNext ==
    \/ \E d \in MetricSteps : Advance(d)
    \/ \E log_data \in RecordedEvents : RecordLog(log_data)
    \/ GetMetrics

MetricsSpec == Init /\ [][MetricsNext]_vars

\* the time that passes between the first and the last read of the clock
\* of one call of get_metrics()
ClockDrifts == 0..MaxDrift

\* the time the clock has moved during calls of get_metrics() so far: the
\* steps between the calls are multiples of LogsWindow
Drifted == now % LogsWindow

\* get_metrics(), with the clock moving by d while it runs; the call has no
\* await, so no other call of the aggregator comes in between
GetMetricsDuring(d) ==
    /\ now > 0
    /\ now + d <= MaxTime
    /\ Drifted + d <= MaxDrift
    /\ DoGetMetricsReading(now, now + d)
    /\ now' = now + d
    /\ lastCount' = <<>>
    /\ UNCHANGED <<bridgeSide, trackerVars, streamVars, ctr, added>>

SnapshotNext ==
    \/ \E d \in MetricSteps : Advance(d)
    \/ \E log_data \in RecordedEvents : RecordLog(log_data)
    \/ \E d \in ClockDrifts : GetMetricsDuring(d)

SnapshotSpec == Init /\ [][SnapshotNext]_vars

(***************************************************************************)
(* Properties of the metrics snapshot                                      *)
(***************************************************************************)
\* the calls of record_log for the level in the last 60 seconds
RecentOfLevel(level) ==
    {i \in 1..Len(logged) : logged[i].level = level /\ logged[i].t >= now - 60}

\* C20: in every snapshot returned by get_metrics(), every level that
\* level_distribution contains maps to the number, above zero, of the events
\* of that level recorded in the last 60 seconds; a level whose counter exists
\* but has emptied is not contained.
C20_LevelDistributionNonzero ==
    snapshot # <<>> =>
        LET dist == snapshot[1].level_distribution
        IN  /\ \A l \in DOMAIN dist :
                  dist[l] > 0 /\ dist[l] = Cardinality(RecentOfLevel(l))
            /\ \A l \in DOMAIN level_counters :
                  RecentOfLevel(l) = {} => l \notin DOMAIN dist

\* a snapshot taken when the counter of one recorded level has emptied and
\* another level has an event in the window
C20_Witness ==
    /\ snapshot # <<>>
    /\ \E l \in DOMAIN level_counters :
          level_counters[l] = <<>> /\ l \notin DOMAIN snapshot[1].level_distribution
    /\ DOMAIN snapshot[1].level_distribution # {}

(***************************************************************************)
(* More sources than the list of top sources holds.  The names of the      *)
(* sources are interchangeable, so the calls of record_log are taken in a  *)
(* canonical order: a call is for the source recorded last or for a source *)
(* not recorded before.                                                    *)
(***************************************************************************)
\* the event of the k-th source
SourceLog(k) == [level |-> "info", message |-> "m", source |-> "src" \o ToString(k)]

\* the clock of such a run moves by more than the longest window, twice at
\* most
TopStep == MinuteWindow + LogsWindow
MaxTopTime == 2 * TopStep

\* time passes, a minute and more at once
TopAdvance ==
    /\ now + TopStep <= MaxTopTime
    /\ now' = now + TopStep
    /\ lastCount' = <<>>
    /\ snapshot' = <<>>
    /\ UNCHANGED <<bridgeSide, trackerVars, streamVars, ctr, added, logs_counter,
                   errors_counter, warnings_counter, criticals_counter,
                   level_counters, source_counters, logs_history, errors_history,
                   last_sample_time, logged>>

\* record_log(log_data) for an event of the k-th source
RecordFromSource(k) ==
    /\ now > 0
    /\ Len(logged) < MaxSourceRecords
    /\ k >= 1
    /\ DoRecord(SourceLog(k))
    /\ UNCHANGED <<bridgeSide, now, trackerVars, streamVars, counterVars>>

TopSourcesNext ==
    \/ TopAdvance
    \/ \E k \in {Len(source_counters), Len(source_counters) + 1} : RecordFromSource(k)
    \/ GetMetrics

TopSourcesSpec == Init /\ [][TopSourcesNext]_vars

\* the calls of record_log for the source in the last 60 seconds
RecentOfSource(source) ==
    {i \in 1..Len(logged) : logged[i].source = source /\ logged[i].t >= now - 60}

\* the sources record_log was called for
LoggedSources == {logged[i].source : i \in 1..Len(logged)}

\* C21: in every snapshot returned by get_metrics(), top_sources has at most
\* 10 entries, each for a different source and with the number, above zero,
\* of the events of the source recorded in the last 60 seconds; the entries
\* are in non-increasing order of count; no source left out has a count above
\* the count of an entry, and a source with events in the window is left out
\* only when the list is full.
C21_TopSources ==
    snapshot # <<>> =>
        LET top == snapshot[1].top_sources
            listed == {top[i].source : i \in 1..Len(top)}
        IN  /\ Len(top) <= 10
            /\ \A i \in 1..Len(top) :
                  /\ top[i].count > 0
                  /\ top[i].count = Cardinality(RecentOfSource(top[i].source))
            /\ \A i, j \in 1..Len(top) :
                  /\ i < j => top[i].count >= top[j].count
                  /\ i # j => top[i].source # top[j].source
            /\ \A s \in LoggedSources \ listed :
                  /\ \A i \in 1..Len(top) :
                        Cardinality(RecentOfSource(s)) <= top[i].count
                  /\ Len(top) < 10 => RecentOfSource(s) = {}

\* a snapshot taken with 11 sources in the window and one source out of it:
\* the list is full, it starts with a count of 2 recorded after counts of 1,
\* and a source with an event in the window is left out
C21_Witness ==
    /\ snapshot # <<>>
    /\ LET top == snapshot[1].top_sources
           listed == {top[i].source : i \in 1..Len(top)}
       IN  /\ Len(top) = 10
           /\ top[1].count = 2
           /\ top[1].source # "src1"
           /\ top[10].count = 1
           /\ \E s \in LoggedSources \ listed : RecentOfSource(s) # {}
           /\ \E s \in LoggedSources : RecentOfSource(s) = {}

(***************************************************************************)
(* The error, warning and critical counters                                *)
(***************************************************************************)
\* the number of events of a counter in the last 60 seconds at time t
InMinute(events, t) == Cardinality({i \in 1..Len(events) : events[i] >= t - 60})

\* a step that is a call of record_log
RecordStep == Len(logged') = Len(logged) + 1

\* C22: a call of record_log adds one to the error counter exactly when the
\* level is error or critical, one to the warning counter exactly when the
\* level is warning, and one to the critical counter exactly when the level
\* is critical; an event of another level leaves the three counts as they
\* were.
C22_LevelCounters ==
    [][RecordStep =>
        LET level == logged'[Len(logged')].level
        IN  /\ InMinute(errors_counter', now) =
                  InMinute(errors_counter, now)
                    + (IF level \in {"error", "critical"} THEN 1 ELSE 0)
            /\ InMinute(warnings_counter', now) =
                  InMinute(warnings_counter, now) + (IF level = "warning" THEN 1 ELSE 0)
            /\ InMinute(criticals_counter', now) =
                  InMinute(criticals_counter, now)
                    + (IF level = "critical" THEN 1 ELSE 0)]_vars

\* a critical event and an info event were recorded: the critical event is in
\* the critical and in the error counter, and nothing is in the warning counter
C22_Witness ==
    /\ Len(logged) = 2
    /\ logged[1].level = "critical"
    /\ logged[2].level = "info"
    /\ errors_counter = <<logged[1].t>>
    /\ criticals_counter = <<logged[1].t>>
    /\ warnings_counter = <<>>

\* the calls of record_log for the level
LoggedOfLevel(level) == {i \in 1..Len(logged) : logged[i].level = level}

\* C23: when every call of record_log was made in the last 60 seconds and
\* none was for a critical event, the snapshot returned by get_metrics() has
\* errors_per_minute equal to the number of error events, warnings_per_minute
\* equal to the number of warning events, and a level_distribution that maps
\* exactly the levels that occurred to their numbers of events.
C23_CountsOfTheLastMinute ==
    (/\ snapshot # <<>>
     /\ \A i \in 1..Len(logged) :
           logged[i].t >= now - 60 /\ logged[i].level # "critical")
    => /\ snapshot[1].errors_per_minute = Cardinality(LoggedOfLevel("error"))
       /\ snapshot[1].warnings_per_minute = Cardinality(LoggedOfLevel("warning"))
       /\ DOMAIN snapshot[1].level_distribution = {logged[i].level : i \in 1..Len(logged)}
       /\ \A l \in DOMAIN snapshot[1].level_distribution :
             snapshot[1].level_distribution[l] = Cardinality(LoggedOfLevel(l))

\* a snapshot taken after a warning event and an error event of the last
\* minute, recorded at different times
C23_Witness ==
    /\ snapshot # <<>>
    /\ Len(logged) = 2
    /\ {logged[1].level, logged[2].level} = {"warning", "error"}
    /\ logged[1].t < logged[2].t
    /\ logged[1].t >= now - 60
    /\ snapshot[1].errors_per_minute = 1
    /\ snapshot[1].warnings_per_minute = 1

(***************************************************************************)
(* The history series                                                      *)
(***************************************************************************)
\* the timestamps of consecutive samples of a series are a second or more apart
SpacedSamples(h) == \A i \in 1..(Len(h) - 1) : h[i + 1][1] - h[i][1] >= 1

\* C24: the timestamps of two consecutive samples of a history series are
\* at least 1 second apart, and a call of record_log made less than 1 second
\* after the last sample appends no sample.
C24_SampledOncePerSecond ==
    /\ [](SpacedSamples(logs_history) /\ SpacedSamples(errors_history))
    /\ [][(/\ RecordStep
            /\ logs_history # <<>>
            /\ now - logs_history[Len(logs_history)][1] < 1)
          => UNCHANGED <<logs_history, errors_history>>]_vars

\* two events recorded in the same second: only the first was sampled
C24_Witness ==
    /\ Len(logged) = 2
    /\ logged[1].t = logged[2].t
    /\ Len(logs_history) = 1
    /\ Len(errors_history) = 1
    /\ logs_history[1][1] = logged[1].t

(***************************************************************************)
(* More seconds than a history series holds: one event is recorded in      *)
(* every second, so that every second is sampled.                          *)
(***************************************************************************)
\* get_history()
get_history ==
    [logs_per_second |-> logs_history, errors_per_minute |-> errors_history]

\* the next second begins, once the event of the second was recorded
HistoryTick ==
    /\ now < MaxHistoryTime
    /\ last_sample_time = now
    /\ now' = now + 1
    /\ lastCount' = <<>>
    /\ snapshot' = <<>>
    /\ UNCHANGED <<bridgeSide, trackerVars, streamVars, ctr, added, logs_counter,
                   errors_counter, warnings_counter, criticals_counter,
                   level_counters, source_counters, logs_history, errors_history,
                   last_sample_time, logged>>

\* record_log(log_data) for the event of the second
RecordInSecond(log_data) ==
    /\ now > 0
    /\ last_sample_time < now
    /\ DoRecord(log_data)
    /\ UNCHANGED <<bridgeSide, now, trackerVars, streamVars, counterVars>>

HistoryNext ==
    \/ HistoryTick
    \/ RecordInSecond(normalize_log(JsonLoads(ParsedErrorFrame.data).value, 0))

HistorySpec == Init /\ [][HistoryNext]_vars

\* the same run, with get_metrics() called at any time
SeriesNext == HistoryNext \/ GetMetrics

SeriesSpec == Init /\ [][SeriesNext]_vars

\* the samples of a series are in the order of their timestamps
OldestFirst(h) == \A i \in 1..(Len(h) - 1) : h[i][1] <= h[i + 1][1]

\* a sample was appended to a full series: the oldest sample is gone and the
\* others are kept in their order
EvictsOldest(h, hNext) ==
    (Len(h) = 300 /\ hNext # h) =>
        /\ Len(hNext) = 300
        /\ SubSeq(hNext, 1, 299) = SubSeq(h, 2, 300)

\* C25: a history series never holds more than 300 samples, appending to a
\* full series removes exactly the oldest sample, and get_history() returns
\* the samples oldest first.
C25_HistoryBounded ==
    /\ [](/\ Len(get_history.logs_per_second) <= 300
          /\ Len(get_history.errors_per_minute) <= 300
          /\ OldestFirst(get_history.logs_per_second)
          /\ OldestFirst(get_history.errors_per_minute))
    /\ [][/\ EvictsOldest(logs_history, logs_history')
          /\ EvictsOldest(errors_history, errors_history')]_vars

\* both series are full and the sample of the first second is gone
C25_Witness ==
    /\ Len(logs_history) = 300
    /\ Len(errors_history) = 300
    /\ logs_history[1][1] > 1
    /\ errors_history[1][1] > 1
    /\ logged[1].t = 1

(***************************************************************************)
(* The order of processing in the bridge                                   *)
(***************************************************************************)
\* C26: the bridge records the events in the order they were received, and
\* it starts on an event only when the processing of every earlier event has
\* finished; every publish is for the event received last, so the publishes
\* are in the order the events were received, and log_stream gets one publish
\* per event at most.
C26_ProcessedInOrder ==
    /\ [](/\ \A i, j \in 1..Len(recorded) :
                i < j => /\ recorded[i].n < recorded[j].n
                         /\ recorded[i].n \in processed
          /\ \A i, j \in 1..Len(sends) :
                i < j => /\ sends[i].n <= sends[j].n
                         /\ sends[i].group = sends[j].group => sends[i].n < sends[j].n)
    /\ [][/\ recorded' # recorded => cur = NoEvent
          /\ sends' # sends =>
                /\ Len(sends') = Len(sends) + 1
                /\ SubSeq(sends', 1, Len(sends)) = sends
                /\ recorded # <<>>
                /\ sends'[Len(sends')].n = recorded[Len(recorded)].n
                /\ sends'[Len(sends')].msg.data = recorded[Len(recorded)].ev \/
                   sends'[Len(sends')].group = AlertGroup]_vars

\* two events were received, recorded and published to log_stream, the first
\* one to the alert group too before the second was recorded
C26_Witness ==
    /\ Len(recorded) = 2
    /\ Len(sends) = 3
    /\ sends[1].group = LogStreamGroup /\ sends[1].n = recorded[1].n /\ sends[1].ok
    /\ sends[2].group = AlertGroup /\ sends[2].n = recorded[1].n
    /\ sends[3].group = LogStreamGroup /\ sends[3].n = recorded[2].n /\ sends[3].ok
    /\ processed = {recorded[1].n, recorded[2].n}

(***************************************************************************)
(* broadcast_metrics_loop, by its awaits: "send" is the group_send of line *)
(* 477, "sleep" the sleep of line 486 and "err_sleep" the sleep of line    *)
(* 493.  The task ends "returned" (return or break) or "cancelled" (a      *)
(* CancelledError left the function).                                      *)
(***************************************************************************)
MetricsGroup == "metrics_stream"

\* the message handed to group_send('metrics_stream', ...)
MetricsUpdateMessage(data, t) ==
    [type |-> "metrics_update", data |-> data, timestamp |-> IsoFormat(t)]

AfterIterationErrorAbort == "returned"

\* except Exception (lines 491-493): the error is logged, the handler sleeps
AfterIterationError == "err_sleep"

AfterCancelSwallowed(at) == IF at = "err_sleep" THEN "sleep" ELSE "returned"

\* a CancelledError raised at an await of the try block is caught and ends
\* the loop (lines 488-490); raised at the sleep of the handler it is caught
\* by nothing and leaves the function
AfterCancel(at) == IF at = "err_sleep" THEN "cancelled" ELSE "returned"

\* one iteration of `while True`, at time t, up to its first await:
\* get_metrics() returns and group_send is awaited, or get_metrics() raises
Iterate(t, ok) ==
    /\ iterations < MaxIterations
    /\ iterations' = iterations + 1
    /\ IF ok
       THEN /\ DoGetMetricsAt(t)
            /\ metrics' = snapshot'
            /\ ppc' = "send"
            /\ UNCHANGED iter_errors
       ELSE /\ ppc' = AfterIterationError
            /\ iter_errors' = iter_errors + 1
            /\ UNCHANGED <<metrics, metricsVars>>

\* the task starts: no channel layer and it returns (lines 465-469), else
\* the first iteration
PStart(layer, ok) ==
    /\ ppc = "idle"
    /\ IF ~layer
       THEN /\ ppc' = "returned"
            /\ UNCHANGED <<metrics, iterations, iter_errors, metricsVars>>
       ELSE Iterate(now, ok)
    /\ UNCHANGED <<bridgeVars, fanoutVars, consumerVars, historyVars, msgHistory, now,
                   trackerVars, streamVars, counterVars, broadcasts, pcancelled, normVars, deliveryVars>>

\* group_send('metrics_stream', ...) returned: sleep(interval_seconds)
PSendOk ==
    /\ ppc = "send"
    /\ broadcasts' = Append(broadcasts, [group |-> MetricsGroup, ok |-> TRUE,
                                         msg |-> MetricsUpdateMessage(metrics[1], now)])
    /\ ppc' = "sleep"
    /\ UNCHANGED <<bridgeVars, fanoutVars, consumerVars, historyVars, msgHistory, now,
                   restVars, metrics, pcancelled, iterations, iter_errors, normVars, deliveryVars>>

\* group_send('metrics_stream', ...) raised: except Exception
PSendFail ==
    /\ ppc = "send"
    /\ broadcasts' = Append(broadcasts, [group |-> MetricsGroup, ok |-> FALSE,
                                         msg |-> MetricsUpdateMessage(metrics[1], now)])
    /\ ppc' = AfterIterationError
    /\ iter_errors' = iter_errors + 1
    /\ UNCHANGED <<bridgeVars, fanoutVars, consumerVars, historyVars, msgHistory, now,
                   restVars, metrics, pcancelled, iterations, normVars, deliveryVars>>

\* a sleep of interval_seconds is over (line 486 or line 493): the next
\* iteration
PSleepDone(ok) ==
    /\ ppc \in {"sleep", "err_sleep"}
    /\ now' = now + IntervalSeconds
    /\ Iterate(now', ok)
    /\ UNCHANGED <<bridgeVars, fanoutVars, consumerVars, historyVars, msgHistory,
                   trackerVars, streamVars, counterVars, broadcasts, pcancelled, normVars, deliveryVars>>

\* task.cancel(): CancelledError is raised at the await the task is suspended
\* at; a group_send it interrupts has published its message (sent) or not
PCancel(sent) ==
    /\ ppc \in {"send", "sleep", "err_sleep"}
    /\ pcancelled' = TRUE
    /\ ppc' = AfterCancel(ppc)
    /\ broadcasts' = IF ppc = "send" /\ sent
                     THEN Append(broadcasts,
                                 [group |-> MetricsGroup, ok |-> FALSE,
                                  msg |-> MetricsUpdateMessage(metrics[1], now)])
                     ELSE broadcasts
    /\ UNCHANGED <<bridgeVars, fanoutVars, consumerVars, historyVars, msgHistory, now,
                   restVars, metrics, iterations, iter_errors, normVars, deliveryVars>>

PublisherNext ==
    \/ \E layer, ok \in BOOLEAN : PStart(layer, ok)
    \/ PSendOk
    \/ PSendFail
    \/ \E ok \in BOOLEAN : PSleepDone(ok)
    \/ \E sent \in BOOLEAN : PCancel(sent)
    \/ \E log_data \in RecordedEvents : RecordLog(log_data)

PublisherSpec == Init /\ [][PublisherNext]_vars

\* a step of the broadcast task
PublisherStep == publisherVars' # publisherVars

\* C27: an iteration of the broadcast loop that raises an error (in
\* get_metrics() or in the publish to metrics_stream) is followed by the sleep
\* of the handler, and when that sleep is over, one interval later, the next
\* iteration is performed; the task that entered the loop ends only when it
\* was cancelled.
C27_IterationErrorContained ==
    /\ [](ppc \in {"returned", "cancelled"} => (pcancelled \/ iterations = 0))
    /\ [][/\ iter_errors' # iter_errors =>
                (iter_errors' = iter_errors + 1 /\ ppc' = "err_sleep")
          /\ (ppc = "err_sleep" /\ PublisherStep /\ ~pcancelled') =>
                /\ iterations' = iterations + 1
                /\ now' = now + 1
                /\ ppc' \in {"send", "err_sleep"}]_vars

\* the publish of the first iteration raised, and so did get_metrics() in
\* the second; the third iteration published
C27_Witness ==
    /\ iter_errors = 2
    /\ iterations = 3
    /\ Len(broadcasts) = 2
    /\ ~broadcasts[1].ok
    /\ broadcasts[2].ok
    /\ ppc = "sleep"
    /\ ~pcancelled

\* C28: once the broadcast task was cancelled, at the publish, at the sleep
\* of the interval or at the sleep of the handler, it has ended, and no
\* publish to metrics_stream follows.
C28_CancelEndsPublisher ==
    /\ [](pcancelled => ppc \in {"returned", "cancelled"})
    /\ [][pcancelled => ~PublisherStep]_vars

\* the task was cancelled in the sleep of the handler after a publish that
\* raised
C28_Witness ==
    /\ pcancelled
    /\ ppc = "cancelled"
    /\ Len(broadcasts) = 1
    /\ iter_errors = 1

(***************************************************************************)
(* _normalize_log on payloads of every shape: each field is absent or      *)
(* present at the top level, and the parsed object is absent or one of a   *)
(* few.                                                                    *)
(***************************************************************************)
\* the union of two dicts with different keys
Merge(a, b) == [k \in (DOMAIN a) \cup (DOMAIN b) |-> IF k \in DOMAIN a THEN a[k] ELSE b[k]]

\* the payloads _normalize_log is called with
Payloads ==
    LET LevelFields == {EmptyDict, [level |-> "Warning"], [level |-> NoneVal]}
        MessageFields == {EmptyDict, [message |-> <<"r", "a", "w">>]}
        SourceFields == {EmptyDict, [source |-> "db"], [host |-> [name |-> "web1"]],
                         [source |-> "db", host |-> [name |-> "web1"]]}
        ServiceFields == {EmptyDict, [service_name |-> "api", environment |-> "prod"]}
        OtherFields == {EmptyDict, [tags |-> "t1"], [_id |-> "id1"]}
        ParsedFields ==
            {EmptyDict,
             [parsed |-> [level |-> "ERROR", message |-> <<"b", "o", "o", "m">>]],
             [parsed |-> [level |-> "", message |-> <<>>, source |-> "", trace |-> "t1"]],
             [parsed |-> [source |-> "app", service_name |-> "web", environment |-> "dev",
                          timestamp |-> "ts1", trace |-> "t1", span |-> "s1"]]}
    IN  {Merge(l, Merge(m, Merge(s, Merge(v, Merge(o, p))))) :
            l \in LevelFields, m \in MessageFields, s \in SourceFields,
            v \in ServiceFields, o \in OtherFields, p \in ParsedFields}

\* self._normalize_log(log_data)
Normalize(log_data) ==
    /\ raw' = <<log_data>>
    /\ normalized' = IF NormalizeRaises(log_data) THEN <<>>
                     ELSE <<normalize_log(log_data, now)>>
    /\ UNCHANGED <<bridgeVars, fanoutVars, consumerVars, historyVars, msgHistory, now,
                   restVars, publisherVars, deliveryVars>>

NormalizeNext == \E log_data \in Payloads : Normalize(log_data)

NormalizeSpec == Init /\ [][NormalizeNext]_vars

\* the parsed object of the payload
ParsedOf(log_data) == IF "parsed" \in DOMAIN log_data THEN log_data.parsed ELSE EmptyDict

\* the dict has a value for the string-valued key
HasString(d, k) == k \in DOMAIN d /\ d[k] \notin {NoneVal, ""}

\* the value of the parsed object for the key when it has one, else the
\* top-level value, else nothing
Preferred(log_data, k) ==
    IF HasString(ParsedOf(log_data), k) THEN ParsedOf(log_data)[k]
    ELSE IF k \in DOMAIN log_data THEN log_data[k]
    ELSE NoneVal

\* the same for the message, a sequence of characters and '' by default
PreferredMessage(log_data) ==
    IF "message" \in DOMAIN ParsedOf(log_data) /\ ParsedOf(log_data).message # <<>>
    THEN ParsedOf(log_data).message
    ELSE IF "message" \in DOMAIN log_data THEN log_data.message
    ELSE <<>>

\* the level strings of the payloads in lower case
LowerCased(level) ==
    CASE level = "ERROR" -> "error"
      [] level = "Warning" -> "warning"
      [] OTHER -> level

\* level, message, service_name and environment of the normalized event are
\* the preferred values, the level in lower case and info by default
PrefersParsed ==
    /\ normalized[1].level =
          LowerCased(IF Preferred(raw[1], "level") = NoneVal THEN "info"
                     ELSE Preferred(raw[1], "level"))
    /\ normalized[1].message = PreferredMessage(raw[1])
    /\ normalized[1].service_name = Preferred(raw[1], "service_name")
    /\ normalized[1].environment = Preferred(raw[1], "environment")

\* C29: every payload is normalized to an event whose level, message,
\* source, service_name and environment are the value of the parsed object
\* when it has one, else the top-level value; the level is in lower case, and
\* info when none is given.
C29_PrefersParsed ==
    raw # <<>> =>
        /\ normalized # <<>>
        /\ PrefersParsed
        /\ normalized[1].source = Preferred(raw[1], "source")

\* the top-level fields _normalize_log maps onto a named field, and the
\* parsed object itself
MappedTopLevel ==
    {"_id", "@metadata", "@timestamp", "level", "message", "source", "host",
     "service_name", "environment", "parsed"}

\* the fields of the parsed object mapped onto a named field
MappedInParsed == {"timestamp", "level", "message", "source", "service_name", "environment"}

\* C30: the metadata of a normalized event has every field of the payload
\* that is not mapped onto a named field, from the top level and from the
\* parsed object, with its value, and it has no mapped field.
C30_MetadataHasAllUnmapped ==
    normalized # <<>> =>
        LET metadata == normalized[1].metadata
        IN  /\ \A k \in (DOMAIN raw[1]) \ MappedTopLevel :
                  k \in DOMAIN metadata /\ metadata[k] = raw[1][k]
            /\ \A k \in (DOMAIN ParsedOf(raw[1])) \ MappedInParsed :
                  k \in DOMAIN metadata /\ metadata[k] = ParsedOf(raw[1])[k]
            /\ \A k \in DOMAIN metadata :
                  k \notin {"id", "timestamp", "level", "message", "source",
                            "service_name", "environment"}

(***************************************************************************)
(* The rate of the snapshot                                                *)
(***************************************************************************)
\* the calls of record_log in the last 10 seconds
RecentLogs == {i \in 1..Len(logged) : logged[i].t >= now - 10}

\* C31: in every snapshot returned by get_metrics(), logs_per_second, in
\* tenths, is the number of events recorded in the last 10 seconds (the count
\* divided by the window of 10 seconds, one decimal), and 0 when there is none.
C31_LogsPerSecond ==
    snapshot # <<>> =>
        /\ snapshot[1].logs_per_second_tenths = Cardinality(RecentLogs)
        /\ RecentLogs = {} => snapshot[1].logs_per_second_tenths = 0

\* a snapshot taken when one of two recorded events is older than 10 seconds:
\* logs_per_second is 0.1
C31_Witness ==
    /\ snapshot # <<>>
    /\ Len(logged) = 2
    /\ logged[1].t < now - 10
    /\ logged[2].t >= now - 10
    /\ snapshot[1].logs_per_second_tenths = 1

(***************************************************************************)
(* The order of the side effects of one event                              *)
(***************************************************************************)
\* the numbers of the events recorded in the aggregator
RecordedNumbers == {recorded[i].n : i \in 1..Len(recorded)}

\* C32: an event is recorded in the aggregator in a step before any of its
\* publishes; its first publish is the one to log_stream; its alert is
\* published only after its publish to log_stream returned.
C32_RecordThenLogThenAlert ==
    /\ [](\A j \in 1..Len(sends) :
            /\ sends[j].n \in RecordedNumbers
            /\ sends[j].group = AlertGroup =>
                  \E i \in 1..(j - 1) :
                      /\ sends[i].n = sends[j].n
                      /\ sends[i].group = LogStreamGroup
                      /\ sends[i].ok)
    /\ [][/\ recorded' # recorded => sends' = sends
          /\ sends' # sends =>
                sends'[Len(sends')].n \in RecordedNumbers]_vars

\* an event was recorded, published to log_stream, and its alert published
C32_Witness ==
    /\ Len(recorded) = 1
    /\ Len(sends) = 2
    /\ sends[1].group = LogStreamGroup /\ sends[1].ok /\ sends[1].n = recorded[1].n
    /\ sends[2].group = AlertGroup /\ sends[2].ok /\ sends[2].n = recorded[1].n

(***************************************************************************)
(* Fanout to the log stream connections, handler by handler.  group_send   *)
(* hands the message to the channel of every member and returns; the       *)
(* consumer of a connection takes the messages of its channel one at a     *)
(* time, and its handler new_log is suspended at `await self.send(...)`    *)
(* until the frame is written.                                             *)
(***************************************************************************)
GroupSendWaitsForWriters == \A c \in ChannelNames : lswriting[c] = <<>>

\* await self._channel_layer.group_send('log_stream', ...) (lines 351-360)
\* returns without waiting for a consumer
GroupSendReturns == TRUE

\* _process_message publishes a normalized event to log_stream
EnqueueNewLog(ev) ==
    /\ Len(published) < MaxPublishes
    /\ GroupSendReturns
    /\ published' = Append(published, NewLogMessage(ev, now))
    /\ lsqueue' = [c \in ChannelNames |->
                      IF c \in StreamMembers
                      THEN Append(lsqueue[c], NewLogMessage(ev, now))
                      ELSE lsqueue[c]]
    /\ UNCHANGED <<outsideDelivery, consumerVars, trackerVars, lsopen, filters, lsinbox,
                   lswriting, lpc>>

\* the consumer of connection c takes the next message of its channel and
\* runs new_log: the event is filtered out and the handler returns, or the
\* handler awaits self.send
NewLogStart(c) ==
    /\ c \in lsopen
    /\ lswriting[c] = <<>>
    /\ lsqueue[c] # <<>>
    /\ lsqueue' = [lsqueue EXCEPT ![c] = Tail(@)]
    /\ lswriting' = [lswriting EXCEPT ![c] =
                        IF FilteredOut(filters[c], Head(lsqueue[c]).data) THEN <<>>
                        ELSE <<NewLogFrame(Head(lsqueue[c]))>>]
    /\ UNCHANGED <<outsideDelivery, consumerVars, trackerVars, streamVars, lpc>>

\* the frame of connection c is written to its websocket: send() returns and
\* so does new_log
NewLogWritten(c) ==
    /\ lswriting[c] # <<>>
    /\ lsinbox' = [lsinbox EXCEPT ![c] = Append(@, lswriting[c][1])]
    /\ lswriting' = [lswriting EXCEPT ![c] = <<>>]
    /\ UNCHANGED <<outsideDelivery, consumerVars, trackerVars, lsopen, filters, published,
                   lsqueue, lpc>>

FanoutNext ==
    \/ \E c \in ChannelNames : LConnect(c)
    \/ \E ev \in StreamEvents : EnqueueNewLog(ev)
    \/ \E c \in ChannelNames : NewLogStart(c)
    \/ \E c \in ChannelNames : NewLogWritten(c)

FanoutSpec == Init /\ [][FanoutNext]_vars

PublishFailed == Len(sends') = Len(sends) + 1 /\ ~sends'[Len(sends')].ok

\* the last call of group_send raised and no frame has arrived since
JustFailed ==
    /\ sends # <<>>
    /\ ~sends[Len(sends)].ok
    /\ sends[Len(sends)].n = received
    /\ pc = "listening"

\* C34: a publish that raises is contained: the step leaves the bridge
\* listening on the same subscription, with the same connection, the same
\* reconnect delay and no sleep, and _running as it was; and as long as the
\* bridge runs, the next frame, whatever it is, is taken by the listener.
C34_FailedPublishContained ==
    /\ [][PublishFailed =>
            /\ pc' = "listening"
            /\ UNCHANGED <<running, redis, pubsub, subscribed, channel_layer,
                           reconnect_delay, openClients, openPubsubs, slept, sleptAll,
                           failures, transportErrors, recorded, inbox>>]_vars
    /\ [](JustFailed /\ running /\ received < MaxMsgs
            => subscribed /\ \A f \in Frames : ENABLED Receive(f))

\* C34 witness: the log_stream publish of the first event raised, and the
\* second event was recorded and its publish to log_stream returned.
C34_Witness ==
    /\ \E i \in LogSends(1) : ~sends[i].ok
    /\ \E i \in 1..Len(recorded) : recorded[i].n = 2
    /\ LogSendReturned(2)
    /\ reconnect_delay = InitialReconnectDelay
    /\ slept = <<>>
    /\ subscribed


(***************************************************************************)
(* Consistency of one snapshot                                             *)
(***************************************************************************)
\* level_distribution[level], a missing level counted as 0
DistOf(snap, level) == Get(snap.level_distribution, level, 0)

\* C35: in every snapshot returned by get_metrics(), errors_per_minute is
\* level_distribution[error] + level_distribution[critical],
\* warnings_per_minute is level_distribution[warning] and
\* criticals_per_minute is level_distribution[critical].
C35_SnapshotConsistent ==
    \A i \in 1..Len(snapshot) :
        /\ snapshot[i].errors_per_minute
              = DistOf(snapshot[i], "error") + DistOf(snapshot[i], "critical")
        /\ snapshot[i].warnings_per_minute = DistOf(snapshot[i], "warning")
        /\ snapshot[i].criticals_per_minute = DistOf(snapshot[i], "critical")


(***************************************************************************)
(* After stop()                                                            *)
(***************************************************************************)
\* the numbers of the events recorded so far
RecordedEventNumbers == {recorded[i].n : i \in 1..Len(recorded)}

\* C36: once stop() has been called on the running bridge, no step records
\* an event, a frame that arrives is not processed, a publish that is still
\* made is the one of an event recorded before, and no client is created
\* for a new connect attempt.
C36_NothingAfterStop ==
    [][stopCalled =>
          /\ recorded' = recorded
          /\ received' # received => cur' = cur /\ sends' = sends /\ inbox' = inbox
          /\ sends' # sends =>
                /\ Len(sends') = Len(sends) + 1
                /\ sends'[Len(sends')].n \in RecordedEventNumbers
                /\ sends'[Len(sends')].n <= received
          /\ nextHandle' = nextHandle
          /\ pc' = "connect_ping" => pc = "connect_ping"]_vars

\* C36 witness: stop() was called while the publish of the first event was
\* awaited; the publish was made, the frame that arrived next was not
\* recorded, and run() returned.
C36_Witness ==
    /\ stopCalled
    /\ received = 2
    /\ RecordedEventNumbers = {1}
    /\ LogSendReturned(1)
    /\ pc = "returned"


(***************************************************************************)
(* Recording is independent of the fanout                                  *)
(***************************************************************************)
\* the entries of recorded for event number n
RecordsOf(n) == {i \in 1..Len(recorded) : recorded[i].n = n}

\* C37: a frame that normalizes and is taken while the bridge runs is
\* recorded by that step, with or without a channel layer; no event is
\* recorded twice, every processed event is recorded, and a record is never
\* taken back: not when a publish raises, not when there is no channel layer.
C37_RecordedExactlyOnce ==
    /\ [][\A f \in Frames :
             (Receive(f) /\ running /\ Normalizes(f)) =>
                 /\ Len(recorded') = Len(recorded) + 1
                 /\ recorded'[Len(recorded')].n = received'
                 /\ recorded'[Len(recorded')].ev
                       = normalize_log(JsonLoads(f.data).value, now)]_vars
    /\ [][Len(recorded') >= Len(recorded)
          /\ SubSeq(recorded', 1, Len(recorded)) = recorded]_vars
    /\ [](/\ \A n \in 1..received : Cardinality(RecordsOf(n)) <= 1
          /\ \A n \in processed : Cardinality(RecordsOf(n)) = 1)

\* C37 witness: without a channel layer two events were recorded and
\* nothing was published.
C37_Witness ==
    /\ ~channel_layer
    /\ subscribed
    /\ Len(recorded) = 2
    /\ processed = {1, 2}
    /\ sends = <<>>


(***************************************************************************)
(* LogStreamConsumer.connect and disconnect, by their awaits.  A consumer  *)
(* runs its handlers one after the other, so disconnect() starts when      *)
(* connect() has returned; the handlers of different connections           *)
(* interleave at every await.  lpc[c] is where the handlers of c are:      *)
(* "closed", "joined" (group_add returned), "tracked" (add_connection      *)
(* returned), "open" (accepted and confirmed), "closing" (the first await  *)
(* of disconnect() returned).                                              *)
(***************************************************************************)
FirstOfDisconnectLeave == "leave"

\* what disconnect() awaits first: remove_connection (lines 183-186), before
\* group_discard (lines 192-195)
FirstOfDisconnect == "untrack"

\* lpc[c] when the step of disconnect() named step is due
DueAt(step) == IF FirstOfDisconnect = step THEN "open" ELSE "closing"

\* lpc[c] after the step of disconnect() named step
After(step) == IF FirstOfDisconnect = step THEN "closing" ELSE "closed"

\* connect(): self.filters = {}, group_add returned (lines 146-152)
LJoin(c) ==
    /\ lpc[c] = "closed"
    /\ filters' = [filters EXCEPT ![c] = EmptyDict]
    /\ groups' = groups \cup {<<LogStreamGroup, c>>}
    /\ lpc' = [lpc EXCEPT ![c] = "joined"]
    /\ UNCHANGED <<outsideDelivery, notification_group, ncstate, trackerVars, lsopen,
                   lsinbox, published, lsqueue, lswriting>>

\* connect(): add_connection returned the count (lines 155-162); accept()
\* comes next
LTrack(c) ==
    /\ lpc[c] = "joined"
    /\ connections' = AddTo(connections, LogStreamGroup, c)
    /\ user_info' = AddUserInfo(user_info, LogStreamGroup, c, UserIdOf(c))
    /\ lsinbox' = [lsinbox EXCEPT ![c] =
                      <<[type |-> "connection",
                         connected_users |->
                             AddReturn(connections, connections', LogStreamGroup)]>>]
    /\ lpc' = [lpc EXCEPT ![c] = "tracked"]
    /\ UNCHANGED <<outsideDelivery, consumerVars, lock, tpc, targs, calls, lsopen,
                   filters, published, lsqueue, lswriting>>

\* connect(): accept() and the send of the confirmation returned
\* (lines 168-177)
LAccept(c) ==
    /\ lpc[c] = "tracked"
    /\ lsopen' = lsopen \cup {c}
    /\ lpc' = [lpc EXCEPT ![c] = "open"]
    /\ UNCHANGED <<outsideDelivery, consumerVars, trackerVars, filters, lsinbox,
                   published, lsqueue, lswriting>>

\* disconnect(): remove_connection returned (lines 182-186)
LUntrack(c) ==
    /\ lpc[c] = DueAt("untrack")
    /\ connections' = RemoveFrom(connections, LogStreamGroup, c)
    /\ user_info' = PopUserInfo(user_info, c)
    /\ lsopen' = lsopen \ {c}
    /\ lpc' = [lpc EXCEPT ![c] = After("untrack")]
    /\ UNCHANGED <<outsideDelivery, consumerVars, lock, tpc, targs, calls, filters,
                   lsinbox, published, lsqueue, lswriting>>

\* disconnect(): group_discard returned (lines 192-195)
LLeave(c) ==
    /\ lpc[c] = DueAt("leave")
    /\ groups' = groups \ {<<LogStreamGroup, c>>}
    /\ lsopen' = lsopen \ {c}
    /\ lpc' = [lpc EXCEPT ![c] = After("leave")]
    /\ UNCHANGED <<outsideDelivery, notification_group, ncstate, trackerVars, filters,
                   lsinbox, published, lsqueue, lswriting>>

\* get_metrics() called between the steps of the handlers
HandlerGetMetrics ==
    /\ DoGetMetrics
    /\ UNCHANGED <<bridgeSide, now, trackerVars, streamVars, counterVars>>

HandlerNext ==
    \/ \E c \in ChannelNames : LJoin(c)
    \/ \E c \in ChannelNames : LTrack(c)
    \/ \E c \in ChannelNames : LAccept(c)
    \/ \E c \in ChannelNames : LUntrack(c)
    \/ \E c \in ChannelNames : LLeave(c)
    \/ HandlerGetMetrics

HandlerSpec == Init /\ [][HandlerNext]_vars

\* the connections the tracker counts for log_stream
Tracked == Get(connections, LogStreamGroup, {})

\* C38: at every point of the handlers, every connection the tracker counts
\* for log_stream is a member of the log_stream group, and connected_users
\* of a snapshot taken there is at most the number of members.
C38_TrackedAreMembers ==
    /\ [](Tracked \subseteq StreamMembers)
    /\ [][HandlerGetMetrics =>
             snapshot'[1].connected_users <= Cardinality(StreamMembers)]_vars

\* C38 witness: one connection is between the two awaits of its
\* disconnect() while the other is between group_add and add_connection,
\* and a snapshot was taken.
C38_Witness ==
    /\ lpc["s1"] = "closing"
    /\ lpc["s2"] = "joined"
    /\ StreamMembers = {"s1", "s2"}
    /\ Tracked = {}
    /\ snapshot # <<>>
    /\ snapshot[1].connected_users = 0


(***************************************************************************)
(* Frames that are no messages                                             *)
(***************************************************************************)
\* C39: a frame whose type is not 'message' changes nothing: no event is
\* recorded, the counters and the history of the aggregator are unchanged,
\* nothing is published or delivered, and no event is in processing.
C39_NonMessageChangesNothing ==
    [][\A f \in Frames \cup {PMessageFrame} :
          (f.type # "message" /\ Receive(f))
             => UNCHANGED <<recorded, sends, inbox, cur, processed, malformed,
                            metricsVars, lsinbox, published>>]_vars

\* C39 witness: the first frame was no message and left no trace; the
\* second one was recorded and published.
C39_Witness ==
    /\ received = 2
    /\ malformed = {}
    /\ RecordedEventNumbers = {2}
    /\ LogSendReturned(2)
    /\ LogSends(1) = {}


(***************************************************************************)
(* The two history series                                                  *)
(***************************************************************************)
\* C40: the two series get_history() returns have the same length and
\* their i-th samples carry the same timestamp; the series change only in
\* a step of record_log, and get_metrics() leaves them as they are.
C40_SeriesAligned ==
    /\ [](/\ Len(get_history.logs_per_second) = Len(get_history.errors_per_minute)
          /\ \A i \in 1..Len(logs_history) :
                get_history.logs_per_second[i][1] = get_history.errors_per_minute[i][1])
    /\ [][<<logs_history, errors_history>>' # <<logs_history, errors_history>>
             => RecordStep]_vars
    /\ [][GetMetrics => UNCHANGED <<logs_history, errors_history>>]_vars

\* C40 witness: both series are full, the oldest sample has been evicted
\* from both, and get_metrics() has just been called.
C40_Witness ==
    /\ Len(logs_history) = HistoryCapacity
    /\ Len(errors_history) = HistoryCapacity
    /\ logs_history[1][1] > 1
    /\ logs_history[HistoryCapacity][1] = errors_history[HistoryCapacity][1]
    /\ snapshot # <<>>

====
